---- MODULE Spec2Model ----
(***************************************************************************)
(* Electric-Maple: per-frame metadata multiplexing between the server's    *)
(* RTP payloader probes and the client's RTP depayloader probes, the       *)
(* client's sample hand-off with Down-message fallback, and the client's   *)
(* signaling connection (EmConnection).                                    *)
(*                                                                         *)
(* A Down message is identified by the number of the server frame it was   *)
(* authored for: message k is the message attached to frame k.  The value  *)
(* 0 stands for an empty (zero length) payload.                            *)
(***************************************************************************)
EXTENDS Integers, Sequences, FiniteSets, TLC

\* ------------------------------------------------------------------------
\* Bounds of the model
\* ------------------------------------------------------------------------
MaxFrames == 2
MaxPktsPerFrame == 2
MaxOutPerPkt == 1
MaxInFlight == 1
MaxMsgId == 2
MaxNow == 2
MaxCancelled == 2
MaxRegistrations == 2
MaxFlushes == 2
MaxWindow == 2
MaxCtrlNow == 8
MaxSrvNow == 8
MaxUpMessages == 3
MaxStops == 3
MaxSamples == 3
MaxPulls == 3

\* ------------------------------------------------------------------------
\* Program constants
\* ------------------------------------------------------------------------
\* Seconds; the model's clock ticks in seconds.
EM_NO_DOWN_MSG_FALLBACK_TIMEOUT_SECS == 1
EM_NO_DOWN_MSG_FALLBACK_SKIPPED_FRAME_THRESHOLD == 10
\* sc->latency_calculation_window = time_s_to_ns(3); the controller's clock
\* (ctrl_now) counts seconds.
latency_calculation_window == 3
\* The decay of max_jitter_latency per evaluation, in milliseconds
JitterDecayStepMs == 10
\* Nanoseconds in a millisecond (time_ns_to_ms_f)
NsPerMs == 1000000
\* Seconds between two bitrate evaluations of the server (handle_up_message)
BitrateWindowSecs == 5

VARIABLES
    \* --- server: struct ems_gstreamer_pipeline ---
    preserved_metadata,           \* message held in preserved_metadata[] (0: preserved_metadata_size = 0)
    \* --- server: the RTP payloader between the two probes ---
    frames,                       \* number of frames that reached the payloader sink pad
    payFrame,                     \* frame the payloader is turning into packets (0: none)
    payPkts,                      \* packets pushed for payFrame so far
    pktSeq,                       \* packets pushed on the payloader src pad so far
    \* --- the media transport ---
    net,                          \* RTP packets in flight, in order
    \* --- client: struct _EmStreamClient ---
    preserved_metadata_struct_buf, \* NoBuf (NULL) or the GstBuffer extracted from a packet
    \* --- client: the RTP depayloader between the two probes ---
    depayFrame,                   \* frame of the packet the depayloader received last (0: none)
    depayOuts,                    \* buffers pushed by the depayloader since that packet
    \* --- observation of the probes (history) ---
    unflushed,                    \* the server register was written and not yet carried by a unit
    latestReg,                    \* message of the latest registration (0: none)
    overwritten,                  \* messages registered and overwritten before any unit flushed
    lastFlush,                    \* the latest unit that left the payloader
    lastRx,                       \* the latest packet seen by rtpdepay_sink_pad_probe
    lastOut,                      \* the latest buffer seen by rtpdepay_src_pad_probe
    attachedX                     \* the extraction that was attached to a media unit last (0: none)

muxVars == <<preserved_metadata, frames, payFrame, payPkts, pktSeq, net,
             preserved_metadata_struct_buf, depayFrame, depayOuts,
             unflushed, latestReg, overwritten, lastFlush, lastRx,
             lastOut, attachedX>>

VARIABLES
    \* --- client: struct _EmStreamClient, sample hand-off ---
    appsink,                      \* sc->appsink is set
    sample,                       \* sc->sample (NoSample: NULL)
    sample_decode_end_time,       \* sc->sample_decode_end_time
    received_first_frame,         \* sc->received_first_frame
    skipped_frames,               \* sc->skipped_frames
    last_down_msg,                \* sc->last_down_msg
    now,                          \* os_monotonic_get_ns(), in seconds
    \* --- observation of em_stream_client_try_pull_sample (history) ---
    missRun,                      \* pulled frames in a row whose own Down message could not be read
    lastGood,                     \* id of the latest Down message read with both poses (0: none)
    lastGoodTime,                 \* time of the pull that read it
    lastPull                      \* what the latest pull returned

pullVars == <<appsink, sample, sample_decode_end_time, received_first_frame,
              skipped_frames, last_down_msg, now, missRun, lastGood,
              lastGoodTime, lastPull>>

\* The sample hand-off fields that the connection's signals never touch
pullRest == <<sample, sample_decode_end_time, skipped_frames, last_down_msg,
              now, missRun, lastGood, lastGoodTime, lastPull>>

VARIABLES
    \* --- client build ---
    useWebrtc,                    \* the client is compiled with USE_WEBRTC
    \* --- client: struct _EmConnection ---
    em_conn,                      \* status, and which of ws_cancel, ws, pipeline,
                                  \* webrtcbin, datachannel are non-NULL
    pipeline_state,               \* GStreamer state of the pipeline handed to em_conn
    negotiated,                   \* the answer to the server's offer was sent
    answer_pending,               \* webrtcbin was asked for an answer whose promise has not fired yet
    ws_closed,                    \* the peer closed the websocket held in em_conn->ws
    livePipelines,                \* pipelines of the process that are in state PLAYING
    \* --- libsoup: soup_session_websocket_connect_async ---
    attempt,                      \* an attempt is in flight whose cancellable is not cancelled
    cancelled,                    \* cancelled attempts whose callback has not run yet
    \* --- client: struct _EmStreamClient ---
    sc_pipeline,                  \* sc->pipeline is set
    \* --- the process ---
    aborted,                      \* a g_assert failed
    \* --- observation of the connection's operations (history) ---
    lastOp                        \* the latest operation, the state before it and its effects

connVars == <<useWebrtc, em_conn, pipeline_state, negotiated, answer_pending, ws_closed,
              livePipelines, attempt, cancelled, sc_pipeline, aborted, lastOp>>

VARIABLES
    \* --- the two metadata registers, one step of a probe at a time ---
    egp_race,                     \* server: egp->metadata_preservation_mutex,
                                  \* preserved_metadata, preserved_metadata_size
                                  \* and the two probe threads
    sc_race                       \* client: sc->metadata_preservation_mutex,
                                  \* preserved_metadata_struct_buf and the two
                                  \* probe threads

raceVars == <<egp_race, sc_race>>

VARIABLES
    \* --- client: struct _EmStreamClient, latency and jitter buffer ---
    latency_collection,           \* latencies in nanoseconds, oldest first
    latency_last_time_query,      \* seconds
    average_latency,              \* nanoseconds
    max_jitter_latency,           \* milliseconds
    \* --- the connection's estimate of the server clock offset ---
    server_clock_offset,          \* what em_connection_get_server_clock_offset returns
    \* --- the monotonic clock of the client, in seconds ---
    ctrl_now,
    \* --- observation (history) ---
    lastEval,                     \* the latest evaluation of the latency window
    lastTiming                    \* the server times written into the latest sample

ctrlVars == <<latency_collection, latency_last_time_query, average_latency,
              max_jitter_latency, server_clock_offset, ctrl_now, lastEval,
              lastTiming>>

\* Variables of the components that the multiplexer, the sample hand-off and
\* the connection never touch
VARIABLES
    \* --- server: handle_up_message ---
    client_average_latency,       \* egp->client_average_latency, nanoseconds
    last_time_change_bitrate,     \* static, seconds; 0 before the first frame message
    max_latency_over_window,      \* static, nanoseconds
    srv_now,                      \* the monotonic clock of the server, seconds
    lastBitrate                   \* the latest frame message handled (history)

srvVars == <<client_average_latency, last_time_change_bitrate,
             max_latency_over_window, srv_now, lastBitrate>>

VARIABLES
    \* --- client: UpMessage emission (gst_common.h) ---
    nextUpMessage,                \* exp->nextUpMessage, std::atomic_int64_t
    up_pc,                        \* per emitter: "idle" or "send"
    up_msg,                       \* per emitter: the up_message_id it holds
    up_max,                       \* the largest id assigned so far (history)
    up_sent,                      \* messages handed to the connection, in order
    lastUp,                       \* the latest id assignment (history)
    lastAck                       \* the latest render call (history)

upVars == <<nextUpMessage, up_pc, up_msg, up_max, up_sent, lastUp, lastAck>>

VARIABLES
    \* --- DownMessage encoding and decoding ---
    down_src,                     \* the message given to the encoder (history)
    down_wire,                    \* the GBytes the encoder returned, if any
    down_decoded                  \* what the client decoded from those bytes

codecVars == <<down_src, down_wire, down_decoded>>

VARIABLES
    \* --- client: shared state of the stream client, statement by statement ---
    sh_pc,                        \* per thread: the statement it executes next, 0 when outside
    sh_holder,                    \* per mutex: the thread holding it, "none" if free
    sh_sample,                    \* sc->sample is non-NULL
    sh_got,                       \* the render thread took a sample in this call
    lastAccess                    \* the latest access to a shared field (history)

shareVars == <<sh_pc, sh_holder, sh_sample, sh_got, lastAccess>>

VARIABLES
    \* --- client: mainloop thread and em_stream_client_stop ---
    st_thread,                    \* sc->play_thread: "none", "running" or "exited"
    st_pipeline,                  \* sc->pipeline is non-NULL
    st_state,                     \* the state of sc->pipeline
    st_conn,                      \* sc->connection: "none", or its status
    pipeline_is_running,          \* sc->pipeline_is_running
    st_caller,                    \* the thread calling the stream client: "free" or "blocked"
    lastStop                      \* the latest call of em_stream_client_stop (history)

stopVars == <<st_thread, st_pipeline, st_state, st_conn, pipeline_is_running, st_caller, lastStop>>

VARIABLES
    \* --- server: the byte size of the metadata register ---
    sink_meta,                    \* bytes of the "protobuf" buffer on the frame at the payloader sink (-1: no meta)
    sink_shape,                   \* the shape of the message that was encoded for that frame (history)
    preserved_metadata_size,      \* egp->preserved_metadata_size
    preserved_overrun,            \* bytes the latest oversized copy wrote past preserved_metadata[]
    lastExt                       \* bytes of the latest header extension written (-1: none)

sizeVars == <<sink_meta, sink_shape, preserved_metadata_size, preserved_overrun, lastExt>>

VARIABLES
    \* --- server: handle_up_message, hand joints ---
    hj_pc,                        \* handle_up_message: "idle", "decoding" or "crashed"
    hand_joint_locations,         \* the set entries of message_super.hand_joint_locations_left / _right
    hj_stray,                     \* a store went to memory outside both arrays
    lastJoint                     \* the latest hand-joint entry decoded (history)

jointVars == <<hj_pc, hand_joint_locations, hj_stray, lastJoint>>

VARIABLES
    \* --- client: the sample slot, one statement at a time ---
    ho_appsink,                   \* sc->appsink is set
    ho_pc,                        \* per thread: the statement it executes next, 0 when outside
    ho_mutex,                     \* sc->sample_mutex: the thread holding it, "none" if free
    ho_slot,                      \* sc->sample (0: NULL)
    ho_local,                     \* per thread: its local sample and prev_sample (render: the fresh count it saw)
    ho_made,                      \* samples the appsink has delivered
    ho_pulls,                     \* calls of em_stream_client_try_pull_sample
    ho_skipped,                   \* sc->skipped_frames
    ho_fresh,                     \* samples stored in the slot since a pull last emptied it (history)
    ho_returned,                  \* per sample: how often a pull returned it (history)
    ho_released,                  \* per sample: how often on_new_sample_cb released it (history)
    lastHandoff                   \* the latest pull that returned (history)

handoffVars == <<ho_appsink, ho_pc, ho_mutex, ho_slot, ho_local, ho_made, ho_pulls, ho_skipped, ho_fresh, ho_returned, ho_released, lastHandoff>>

extVars == <<raceVars, ctrlVars, srvVars, upVars, codecVars, shareVars, stopVars, sizeVars, jointVars, handoffVars>>

vars == <<muxVars, pullVars, connVars, extVars>>

\* Variables the multiplexer's probes never touch
notMuxVars == <<pullVars, connVars, extVars>>

\* Variables the sample hand-off never touches
notPullVars == <<muxVars, connVars, extVars>>

\* Variables the connection and its signal handlers never touch
notConnVars == <<muxVars, pullRest, extVars>>

\* The sample hand-off fields that on_new_sample_cb never touches
pullIdle == <<skipped_frames, last_down_msg, now, missRun, lastGood,
              lastGoodTime, lastPull>>

\* NULL value of preserved_metadata_struct_buf
NoBuf == [msg |-> 0, xid |-> 0]

\* ------------------------------------------------------------------------
\* Server: rtppay_sink_pad_probe / rtppay_src_pad_probe
\* ------------------------------------------------------------------------

\* Mutant of SinkProbeStore: a pending message is not overwritten.
SinkProbeStoreKeepFirst(reg, m) == IF reg # 0 THEN reg ELSE m

\* memcpy(egp->preserved_metadata, map_info.data, map_info.size): the new
\* message replaces whatever the register held.
SinkProbeStore(reg, m) == m

\* Mutant of SrcProbeKeep: the flush empties the register.
SrcProbeClear(reg) == 0

\* The register after rtppay_src_pad_probe wrote it into a packet: the probe
\* neither clears preserved_metadata nor resets preserved_metadata_size.
SrcProbeKeep(reg) == reg

\* A frame reaches the payloader sink pad.  hasMeta is FALSE when the buffer
\* has no "down-message" custom meta, no protobuf field or cannot be mapped:
\* the probe returns early and leaves the register alone.
rtppay_sink_pad_probe(hasMeta) ==
    /\ frames < MaxFrames
    /\ frames' = frames + 1
    /\ payFrame' = frames + 1
    /\ payPkts' = 0
    /\ IF hasMeta
         THEN /\ preserved_metadata' = SinkProbeStore(preserved_metadata, frames + 1)
              /\ latestReg' = frames + 1
              /\ overwritten' = IF unflushed THEN overwritten \cup {latestReg}
                                             ELSE overwritten
              /\ unflushed' = TRUE
         ELSE UNCHANGED <<preserved_metadata, latestReg, overwritten, unflushed>>
    /\ UNCHANGED <<pktSeq, net, preserved_metadata_struct_buf, depayFrame,
                   depayOuts, lastFlush, lastRx, lastOut, attachedX>>
    /\ UNCHANGED notMuxVars

\* The payloader pushes one RTP packet of payFrame.  addOk is the result of
\* gst_rtp_buffer_add_extension_twobytes_header (and of mapping the buffer).
rtppay_src_pad_probe(addOk) ==
    /\ payFrame # 0
    /\ payPkts < MaxPktsPerFrame
    /\ Len(net) < MaxInFlight
    /\ payPkts' = payPkts + 1
    /\ pktSeq' = pktSeq + 1
    /\ net' = Append(net, [frame |-> payFrame, hasExt |-> addOk,
                           ext |-> IF addOk THEN preserved_metadata ELSE 0,
                           seq |-> pktSeq + 1])
    /\ lastFlush' = [n |-> pktSeq + 1, frame |-> payFrame, hasExt |-> addOk,
                     ext |-> IF addOk THEN preserved_metadata ELSE 0,
                     fresh |-> unflushed, latest |-> latestReg]
    /\ preserved_metadata' = IF addOk THEN SrcProbeKeep(preserved_metadata)
                                      ELSE preserved_metadata
    /\ unflushed' = IF addOk THEN FALSE ELSE unflushed
    /\ UNCHANGED <<frames, payFrame, latestReg, overwritten,
                   preserved_metadata_struct_buf, depayFrame, depayOuts,
                   lastRx, lastOut, attachedX>>
    /\ UNCHANGED notMuxVars

\* ------------------------------------------------------------------------
\* Transport: a packet is lost before it reaches the depayloader
\* ------------------------------------------------------------------------
NetLose ==
    /\ net # <<>>
    /\ net' = Tail(net)
    /\ UNCHANGED <<preserved_metadata, frames, payFrame, payPkts, pktSeq,
                   preserved_metadata_struct_buf, depayFrame, depayOuts,
                   unflushed, latestReg, overwritten, lastFlush,
                   lastRx, lastOut, attachedX>>
    /\ UNCHANGED notMuxVars

\* ------------------------------------------------------------------------
\* Client: rtpdepay_sink_pad_probe / rtpdepay_src_pad_probe
\* ------------------------------------------------------------------------

\* Mutant of DepaySinkStore: a newer payload replaces an unconsumed one.
DepaySinkStoreLatest(buf, pkt) ==
    IF pkt.hasExt THEN [msg |-> pkt.ext, xid |-> pkt.seq] ELSE buf

\* Mutant of DepaySrcClear: the register is left as it was.
DepaySrcNoClear(buf) == buf

\* The register after rtpdepay_sink_pad_probe saw packet pkt: an occupied
\* register is "not yet consumed" and is kept; an empty one takes the payload
\* of the packet's two-byte header extension, if the packet has one.
DepaySinkStore(buf, pkt) ==
    IF buf # NoBuf THEN buf
    ELSE IF pkt.hasExt THEN [msg |-> pkt.ext, xid |-> pkt.seq]
    ELSE NoBuf

\* The register after rtpdepay_src_pad_probe found it occupied: the buffer is
\* unreffed and the pointer set to NULL, on both the success and the
\* gst_buffer_add_custom_meta failure path.
DepaySrcClear(buf) == NoBuf

\* The next packet in flight reaches the depayloader sink pad.
rtpdepay_sink_pad_probe ==
    /\ net # <<>>
    /\ LET pkt == Head(net) IN
         /\ preserved_metadata_struct_buf' =
                DepaySinkStore(preserved_metadata_struct_buf, pkt)
         /\ lastRx' = [n |-> pkt.seq, hasExt |-> pkt.hasExt, ext |-> pkt.ext,
                       before |-> preserved_metadata_struct_buf,
                       after |-> DepaySinkStore(preserved_metadata_struct_buf, pkt)]
         /\ depayFrame' = pkt.frame
    /\ net' = Tail(net)
    /\ depayOuts' = 0
    /\ UNCHANGED <<preserved_metadata, frames, payFrame, payPkts, pktSeq,
                   unflushed, latestReg, overwritten, lastFlush,
                   lastOut, attachedX>>
    /\ UNCHANGED notMuxVars

\* The depayloader pushes a buffer made from the packets of depayFrame.
\* metaOk is the result of gst_buffer_add_custom_meta.
rtpdepay_src_pad_probe(metaOk) ==
    /\ depayFrame # 0
    /\ depayOuts < MaxOutPerPkt
    /\ depayOuts' = depayOuts + 1
    /\ IF preserved_metadata_struct_buf = NoBuf
         THEN /\ lastOut' = [frame |-> depayFrame,
                             hasMeta |-> FALSE, msg |-> 0, xid |-> 0,
                             before |-> NoBuf, after |-> NoBuf,
                             metaOk |-> metaOk, dup |-> FALSE]
              /\ UNCHANGED <<preserved_metadata_struct_buf, attachedX>>
         ELSE /\ lastOut' = [frame |-> depayFrame,
                             hasMeta |-> metaOk,
                             msg |-> IF metaOk THEN preserved_metadata_struct_buf.msg ELSE 0,
                             xid |-> IF metaOk THEN preserved_metadata_struct_buf.xid ELSE 0,
                             before |-> preserved_metadata_struct_buf,
                             after |-> DepaySrcClear(preserved_metadata_struct_buf),
                             metaOk |-> metaOk,
                             dup |-> metaOk /\ preserved_metadata_struct_buf.xid = attachedX]
              /\ attachedX' = IF metaOk
                                THEN preserved_metadata_struct_buf.xid
                                ELSE attachedX
              /\ preserved_metadata_struct_buf' =
                     DepaySrcClear(preserved_metadata_struct_buf)
    /\ UNCHANGED <<preserved_metadata, frames, payFrame, payPkts, pktSeq, net,
                   depayFrame, unflushed, latestReg, overwritten,
                   lastFlush, lastRx>>
    /\ UNCHANGED notMuxVars

\* ------------------------------------------------------------------------
\* Client: on_new_sample_cb / em_stream_client_try_pull_sample
\* ------------------------------------------------------------------------

\* A decoded sample: meta is "ok" when its buffer carries a "down-message"
\* custom meta whose protobuf decodes, "bad" when the meta is there but the
\* payload does not decode, "none" when the buffer has no such meta.  id and
\* poses describe the decoded message: its frame_sequence_id, and whether it
\* has frame_data with both P_localSpace_view0 and P_localSpace_view1.
NoSample == [meta |-> "null", id |-> 0, poses |-> FALSE]

Samples ==
    {[meta |-> m, id |-> 0, poses |-> FALSE] : m \in {"none", "bad"}}
    \cup {[meta |-> "ok", id |-> i, poses |-> p] : i \in 1..MaxMsgId, p \in BOOLEAN}

\* em_proto_DownMessage_init_default
DownMessage_init_default == [id |-> 0, poses |-> FALSE]

\* read_down_message_from_custom_meta: TRUE iff the message was read
read_down_message_from_custom_meta(s) == s.meta = "ok"

\* Mutant of FallbackMsg: nothing is reused.
FallbackDefault(last) == DownMessage_init_default

\* "Reading DownMessage from GstCustomMeta failed. Reusing last one":
\* msg = sc->last_down_msg, whatever the number of frames or the time since
\* it was stored.
FallbackMsg(last) == last

\* drop_frame of on_new_sample_cb: initialised false, the assignment for a
\* buffer without down-message is commented out, and both thresholds only
\* ever reset it to false.
drop_frame(s, last_frame_diff, skipped) ==
    LET d0 == FALSE
        d1 == IF last_frame_diff >= EM_NO_DOWN_MSG_FALLBACK_TIMEOUT_SECS
                THEN FALSE ELSE d0
        d2 == IF skipped >= EM_NO_DOWN_MSG_FALLBACK_SKIPPED_FRAME_THRESHOLD
                THEN FALSE ELSE d1
    IN d2

\* on_need_pipeline_cb creates the appsink and installs on_new_sample_cb.
PullSetup ==
    /\ ~appsink
    /\ appsink' = TRUE
    /\ received_first_frame' = FALSE
    /\ UNCHANGED <<sample, sample_decode_end_time, skipped_frames,
                   last_down_msg, now, missRun, lastGood, lastGoodTime,
                   lastPull>>
    /\ UNCHANGED notPullVars

\* The clock advances.
Tick ==
    /\ now < MaxNow
    /\ now' = now + 1
    /\ UNCHANGED <<appsink, sample, sample_decode_end_time,
                   received_first_frame, skipped_frames, last_down_msg,
                   missRun, lastGood, lastGoodTime, lastPull>>
    /\ UNCHANGED notPullVars

\* The body of on_new_sample_cb: unless the frame is dropped, the sample
\* replaces sc->sample.
NewSampleStore(s) ==
    IF drop_frame(s, now - sample_decode_end_time, skipped_frames)
      THEN UNCHANGED <<sample, sample_decode_end_time, received_first_frame>>
      ELSE /\ sample' = s
           /\ sample_decode_end_time' = now
           /\ received_first_frame' = TRUE

\* The appsink hands a decoded sample s to on_new_sample_cb (pipeline thread).
on_new_sample_cb(s) ==
    /\ appsink
    /\ NewSampleStore(s)
    /\ UNCHANGED appsink
    /\ UNCHANGED pullIdle
    /\ UNCHANGED notPullVars

\* The render thread calls em_stream_client_try_pull_sample.  latency_of is
\* the id of the message whose frame_push_clock_time went into the latency
\* appended to latency_collection (0: nothing was appended).
em_stream_client_try_pull_sample ==
    IF ~appsink
      THEN \* not setup yet
           /\ lastPull' = [ret |-> "null", have_poses |-> FALSE,
                           frame_sequence_id |-> 0, own |-> FALSE, run |-> 0,
                           good |-> 0, age |-> 0, meta |-> "null",
                           last_before |-> DownMessage_init_default,
                           latency_of |-> 0]
           /\ UNCHANGED <<appsink, sample, sample_decode_end_time,
                          received_first_frame, skipped_frames, last_down_msg,
                          now, missRun, lastGood, lastGoodTime>>
           /\ UNCHANGED notPullVars
      ELSE IF sample = NoSample
      THEN /\ skipped_frames' =
                 IF skipped_frames <= EM_NO_DOWN_MSG_FALLBACK_SKIPPED_FRAME_THRESHOLD
                   THEN skipped_frames + 1 ELSE skipped_frames
           /\ lastPull' = [ret |-> "null", have_poses |-> FALSE,
                           frame_sequence_id |-> 0, own |-> FALSE, run |-> 0,
                           good |-> 0, age |-> 0, meta |-> "null",
                           last_before |-> DownMessage_init_default,
                           latency_of |-> 0]
           /\ UNCHANGED <<appsink, sample, sample_decode_end_time,
                          received_first_frame, last_down_msg, now, missRun,
                          lastGood, lastGoodTime>>
           /\ UNCHANGED notPullVars
      ELSE LET own == read_down_message_from_custom_meta(sample)
               msg == IF own THEN [id |-> sample.id, poses |-> sample.poses]
                             ELSE FallbackMsg(last_down_msg)
               run == IF own THEN 0
                      ELSE IF missRun <= EM_NO_DOWN_MSG_FALLBACK_SKIPPED_FRAME_THRESHOLD
                             THEN missRun + 1 ELSE missRun
           IN
           /\ sample' = NoSample
           /\ skipped_frames' = 0
           /\ last_down_msg' = IF msg.poses THEN msg ELSE last_down_msg
           /\ missRun' = run
           /\ lastGood' = IF own /\ msg.poses THEN msg.id ELSE lastGood
           /\ lastGoodTime' = IF own /\ msg.poses THEN now ELSE lastGoodTime
           /\ lastPull' = [ret |-> "sample", have_poses |-> msg.poses,
                           frame_sequence_id |-> IF msg.poses THEN msg.id ELSE 0,
                           own |-> own, run |-> run, good |-> lastGood,
                           age |-> now - lastGoodTime, meta |-> sample.meta,
                           last_before |-> last_down_msg,
                           latency_of |-> IF msg.poses THEN msg.id ELSE 0]
           /\ UNCHANGED <<appsink, sample_decode_end_time,
                          received_first_frame, now>>
           /\ UNCHANGED notPullVars

\* ------------------------------------------------------------------------
\* Client: EmConnection
\* ------------------------------------------------------------------------

\* The object fields of struct _EmConnection that hold a reference
ConnRefs == {"ws_cancel", "ws", "pipeline", "webrtcbin", "datachannel"}

\* The status changes logged by em_conn_update_status(old -> new)
StatusLog(old, new) == IF old = new THEN <<>> ELSE <<new>>

\* The statuses of enum em_status in which no connection attempt or session
\* is under way: the initial one and the ones a failure or a teardown leaves
IdleOrDisconnected ==
    {"IDLE_NOT_CONNECTED", "WEBSOCKET_FAILED", "DISCONNECTED_ERROR",
     "DISCONNECTED_REMOTE_CLOSE"}

\* The reason of the specification's Disconnected(reason) that a status of
\* enum em_status stands for ("none" for a status that is not a disconnected
\* one).  No status stands for NoPipelineProvided.
DisconnectReason(status) ==
    CASE status = "IDLE_NOT_CONNECTED" -> "UserRequested"
      [] status = "WEBSOCKET_FAILED" -> "SignalingFailed"
      [] status = "DISCONNECTED_REMOTE_CLOSE" -> "RemoteClosed"
      [] status = "DISCONNECTED_ERROR" -> "TransportError"
      [] OTHER -> "none"

\* Mutant of em_conn_update_status: the status is never changed.
UpdateStatusIgnored(c, st) == c

\* em_conn_update_status: nothing happens when the status is the same
em_conn_update_status(c, st) ==
    IF st = c.status THEN c ELSE [c EXCEPT !.status = st]

\* Mutant of DropPipelineSignal: the signal is emitted on every teardown.
DropPipelineAlways(c) == <<"on-drop-pipeline">>

\* The signals em_conn_disconnect_internal emits: on-drop-pipeline, and only
\* when em_conn->pipeline is set.
DropPipelineSignal(c) == IF c.pipeline THEN <<"on-drop-pipeline">> ELSE <<>>

\* Mutant of TeardownTrace: the websocket is closed and released before the
\* pipeline is stopped.
TeardownTraceWsFirst(c) ==
    (IF c.ws_cancel THEN <<"cancel">> ELSE <<>>)
    \o (IF c.ws THEN <<"ws-close">> ELSE <<>>)
    \o <<"ws-clear">>
    \o (IF c.pipeline THEN <<"pipeline-null", "on-drop-pipeline">> ELSE <<>>)
    \o <<"webrtcbin-clear", "datachannel-clear", "pipeline-clear">>

\* The steps of em_conn_disconnect_internal, in the order of the code
TeardownTrace(c) ==
    (IF c.ws_cancel THEN <<"cancel">> ELSE <<>>)
    \o (IF c.pipeline THEN <<"pipeline-null", "on-drop-pipeline">> ELSE <<>>)
    \o (IF c.ws THEN <<"ws-close">> ELSE <<>>)
    \o <<"ws-clear", "webrtcbin-clear", "datachannel-clear", "pipeline-clear">>

\* Mutant of em_conn_disconnect_internal: the data channel is kept.
DisconnectKeepsDatachannel(c, st) ==
    [status |-> st, ws_cancel |-> FALSE, ws |-> FALSE, pipeline |-> FALSE,
     webrtcbin |-> FALSE, datachannel |-> c.datachannel]

\* em_conn_disconnect_internal: the cancellable is cancelled and cleared, the
\* websocket closed and cleared, webrtcbin, datachannel and pipeline cleared,
\* and the status updated.
em_conn_disconnect_internal(c, st) ==
    em_conn_update_status([c EXCEPT !.ws_cancel = FALSE, !.ws = FALSE,
                                    !.webrtcbin = FALSE, !.datachannel = FALSE,
                                    !.pipeline = FALSE], st)

\* Mutant of em_connection_disconnect: nothing is torn down.
NoTeardown(c) == c

\* em_connection_disconnect
em_connection_disconnect(c) ==
    em_conn_disconnect_internal(c, "IDLE_NOT_CONNECTED")

\* Mutant of SetPipelineStopsOld: the pipeline already held is left running.
SetPipelineLeavesOld(c) == FALSE

\* em_connection_set_pipeline sets the pipeline already held, if any, to
\* GST_STATE_NULL before releasing it.
SetPipelineStopsOld(c) == c.pipeline

\* em_connection_set_pipeline: the new pipeline replaces the one held; with
\* USE_WEBRTC the status becomes NEGOTIATING and webrtcbin is looked up.
em_connection_set_pipeline(c) ==
    IF useWebrtc
      THEN [em_conn_update_status([c EXCEPT !.pipeline = TRUE], "NEGOTIATING")
               EXCEPT !.webrtcbin = TRUE]
      ELSE [c EXCEPT !.pipeline = TRUE]

\* Mutant of SendAllowed: bytes are sent in every status.
SendAlways(c) == TRUE

\* em_connection_send_bytes sends only when the status is CONNECTED.
SendAllowed(c) == c.status = "CONNECTED"

\* Mutant of FinishOk: a cancelled attempt that had connected yields its
\* connection.
FinishIgnoresCancel(res) == res # "error"

\* soup_session_websocket_connect_finish returns a connection and no error
\* only for an attempt that connected and was not cancelled.
FinishOk(res) == res = "ok"

\* Mutant of WebsocketFailed: the failure is not reported in the status.
WebsocketFailedIgnored(c) == c

\* The error branch of em_conn_websocket_connected_cb
WebsocketFailed(c) == em_conn_update_status(c, "WEBSOCKET_FAILED")

\* Mutant of WebsocketConnected: CONNECTED is never set by the websocket.
WebsocketConnectedKeepsStatus(c) == [c EXCEPT !.ws = TRUE]

\* em_conn_websocket_connected_cb on success: em_conn->ws is set and, in a
\* build without USE_WEBRTC, em_conn->status = EM_STATUS_CONNECTED.
WebsocketConnected(c) ==
    [c EXCEPT !.ws = TRUE,
              !.status = IF useWebrtc THEN @ ELSE "CONNECTED"]

\* The references held before and released by a step from c to d
Released(c, d) == {f \in ConnRefs : c[f] /\ ~d[f]}

\* The record of an operation that changed and emitted nothing
OpRecord(op) ==
    [op |-> op, pre |-> em_conn, preAttempt |-> attempt,
     preState |-> pipeline_state, emitted |-> <<>>, log |-> <<>>,
     released |-> {}, closed |-> FALSE, cancel |-> FALSE, trace |-> <<>>,
     ret |-> FALSE, sent |-> "none", prevOp |-> lastOp.op]

\* What a teardown from c to d did, as recorded in lastOp
TeardownEffects(c, d) ==
    [emitted |-> DropPipelineSignal(c),
     log |-> StatusLog(c.status, d.status),
     released |-> Released(c, d),
     closed |-> c.ws /\ ~d.ws,
     cancel |-> c.ws_cancel /\ ~d.ws_cancel,
     trace |-> TeardownTrace(c)]

\* The effect of a teardown from c to d outside em_conn: the pipeline is set
\* to GST_STATE_NULL and on_drop_pipeline_cb runs inside the signal emission,
\* and what hung on the released websocket and webrtcbin is gone.
TeardownRest(c, d) ==
    /\ IF DropPipelineSignal(c) # <<>>
         THEN /\ pipeline_state' = "NULL"
              /\ livePipelines' = IF pipeline_state = "PLAYING"
                                    THEN livePipelines - 1 ELSE livePipelines
              /\ sc_pipeline' = FALSE
              /\ appsink' = FALSE
         ELSE UNCHANGED <<pipeline_state, livePipelines, sc_pipeline, appsink>>
    /\ negotiated' = IF d.webrtcbin THEN negotiated ELSE FALSE
    /\ answer_pending' = IF d.webrtcbin THEN answer_pending ELSE FALSE
    /\ ws_closed' = IF d.ws THEN ws_closed ELSE FALSE

\* em_connection_connect: em_conn_connect_internal(em_conn, CONNECTING)
em_connection_connect ==
    /\ ~aborted
    /\ attempt => cancelled < MaxCancelled
    /\ LET d == em_connection_disconnect(em_conn)
           n == em_conn_update_status([d EXCEPT !.ws_cancel = TRUE], "CONNECTING")
           t == TeardownEffects(em_conn, d)
       IN /\ em_conn' = n
          /\ cancelled' = IF attempt /\ t.cancel THEN cancelled + 1 ELSE cancelled
          /\ lastOp' = [OpRecord("connect") EXCEPT
                          !.emitted = t.emitted,
                          !.log = t.log \o StatusLog(d.status, n.status),
                          !.released = t.released, !.closed = t.closed,
                          !.cancel = t.cancel,
                          !.trace = t.trace \o <<"connect-async">>]
          /\ TeardownRest(em_conn, d)
    /\ attempt' = TRUE
    /\ UNCHANGED <<useWebrtc, aborted, received_first_frame>>
    /\ UNCHANGED notConnVars

\* A teardown of em_conn that leaves it as d, on behalf of the operation op
Disconnect(op, d) ==
    /\ ~aborted
    /\ attempt => cancelled < MaxCancelled
    /\ LET t == TeardownEffects(em_conn, d)
       IN /\ em_conn' = d
          /\ cancelled' = IF attempt /\ t.cancel THEN cancelled + 1 ELSE cancelled
          /\ attempt' = IF t.cancel THEN FALSE ELSE attempt
          /\ lastOp' = [OpRecord(op) EXCEPT
                          !.emitted = t.emitted, !.log = t.log,
                          !.released = t.released, !.closed = t.closed,
                          !.cancel = t.cancel, !.trace = t.trace]
    /\ TeardownRest(em_conn, d)
    /\ UNCHANGED <<useWebrtc, aborted, received_first_frame>>
    /\ UNCHANGED notConnVars

\* The application calls em_connection_disconnect (onAppCmd,
\* em_stream_client_stop, em_remote_experience_dispose).
CallDisconnect == Disconnect("disconnect", em_connection_disconnect(em_conn))

\* The data channel reports an error.
em_conn_data_channel_error_cb ==
    /\ useWebrtc
    /\ em_conn.webrtcbin
    /\ pipeline_state = "PLAYING"
    /\ negotiated
    /\ Disconnect("dc_error",
                  em_conn_disconnect_internal(em_conn, "DISCONNECTED_ERROR"))

\* The data channel is closed by the peer.
em_conn_data_channel_close_cb ==
    /\ useWebrtc
    /\ em_conn.webrtcbin
    /\ pipeline_state = "PLAYING"
    /\ negotiated
    /\ Disconnect("dc_close",
                  em_conn_disconnect_internal(em_conn, "DISCONNECTED_REMOTE_CLOSE"))

\* Everything but em_conn, aborted and lastOp
connRest == <<useWebrtc, pipeline_state, negotiated, answer_pending, ws_closed, livePipelines,
              attempt, cancelled, sc_pipeline, appsink, received_first_frame>>

\* webrtcbin announces a data channel, which it does once the offer and the
\* answer have been exchanged.
em_conn_webrtc_on_data_channel_cb ==
    /\ ~aborted
    /\ useWebrtc
    /\ em_conn.webrtcbin
    /\ pipeline_state = "PLAYING"
    /\ negotiated
    /\ IF em_conn.datachannel
         THEN \* g_assert_null(em_conn->datachannel)
              /\ aborted' = TRUE
              /\ lastOp' = OpRecord("abort")
              /\ UNCHANGED em_conn
         ELSE LET n == em_conn_update_status([em_conn EXCEPT !.datachannel = TRUE],
                                             "CONNECTED")
              IN /\ em_conn' = n
                 /\ lastOp' = [OpRecord("on_data_channel") EXCEPT
                                 !.emitted = <<"connected">>,
                                 !.log = StatusLog(em_conn.status, n.status)]
                 /\ UNCHANGED aborted
    /\ UNCHANGED connRest
    /\ UNCHANGED notConnVars

\* A websocket message arrives (em_conn_on_ws_message_cb).  An "offer" is
\* given to webrtcbin as remote description and an answer is asked for
\* (em_conn_webrtc_process_sdp_offer); a "candidate" is given to webrtcbin;
\* anything else is ignored.  Only a server for the USE_WEBRTC build sends
\* these messages.
em_conn_on_ws_message_cb(msg_type) ==
    /\ ~aborted
    /\ useWebrtc
    /\ em_conn.ws
    /\ ~ws_closed
    /\ em_conn.webrtcbin
    /\ answer_pending' = IF msg_type = "offer" THEN TRUE ELSE answer_pending
    /\ lastOp' = [OpRecord("ws_message") EXCEPT
                    !.trace = IF msg_type = "offer"
                                THEN <<"set-remote-description", "create-answer">>
                              ELSE IF msg_type = "candidate"
                                THEN <<"add-ice-candidate">>
                              ELSE <<>>]
    /\ UNCHANGED <<em_conn, aborted, useWebrtc, pipeline_state, negotiated,
                   ws_closed, livePipelines, attempt, cancelled, sc_pipeline,
                   appsink, received_first_frame>>
    /\ UNCHANGED notConnVars

\* Mutant of AnswerCreatedStatus: the answer moves the status on.
AnswerCreatedConnects(c) ==
    IF c.datachannel THEN "CONNECTED" ELSE "CONNECTED_NO_DATA"

\* The status after em_conn_webrtc_on_answer_created, which does not call
\* em_conn_update_status.
AnswerCreatedStatus(c) == c.status

\* webrtcbin fires the promise of create-answer
\* (em_conn_webrtc_on_answer_created): the answer becomes the local
\* description and is sent over the websocket, which drops it when the peer
\* has closed.
em_conn_webrtc_on_answer_created ==
    /\ ~aborted
    /\ useWebrtc
    /\ answer_pending
    /\ em_conn.webrtcbin
    /\ em_conn.ws
    /\ answer_pending' = FALSE
    /\ negotiated' = (negotiated \/ ~ws_closed)
    /\ LET n == [em_conn EXCEPT !.status = AnswerCreatedStatus(em_conn)] IN
       /\ em_conn' = n
       /\ lastOp' = [OpRecord("answer_created") EXCEPT
                       !.log = StatusLog(em_conn.status, n.status),
                       !.trace = <<"set-local-description", "send-answer">>,
                       !.sent = IF ws_closed THEN "none" ELSE "answer"]
    /\ UNCHANGED <<aborted, useWebrtc, pipeline_state, ws_closed, livePipelines,
                   attempt, cancelled, sc_pipeline, appsink,
                   received_first_frame>>
    /\ UNCHANGED notConnVars

\* The peer closes the websocket.  em_conn connects a handler to the
\* websocket's "message" signal only, so nothing in em_conn changes.
ws_peer_close ==
    /\ ~aborted
    /\ em_conn.ws
    /\ ~ws_closed
    /\ ws_closed' = TRUE
    /\ lastOp' = OpRecord("ws_peer_close")
    /\ UNCHANGED <<em_conn, aborted, useWebrtc, pipeline_state, negotiated, answer_pending,
                   livePipelines, attempt, cancelled, sc_pipeline, appsink,
                   received_first_frame>>
    /\ UNCHANGED notConnVars

\* The application calls em_connection_send_bytes
\* (em_remote_experience_emit_upmessage).  sendOk is the result of
\* gst_webrtc_data_channel_send_data_full.
em_connection_send_bytes(sendOk) ==
    /\ ~aborted
    /\ lastOp' = IF ~SendAllowed(em_conn)
                   THEN OpRecord("send")
                 ELSE IF useWebrtc
                   THEN [OpRecord("send") EXCEPT !.ret = sendOk,
                                                 !.sent = "datachannel"]
                 ELSE [OpRecord("send") EXCEPT !.ret = TRUE, !.sent = "ws"]
    /\ UNCHANGED <<em_conn, aborted>>
    /\ UNCHANGED connRest
    /\ UNCHANGED notConnVars

\* The application replaces the pipeline of the connection through the
\* set-pipeline action signal (em_connection_set_pipeline).  The new pipeline
\* is not started.
CallSetPipeline ==
    /\ ~aborted
    /\ em_conn.pipeline
    /\ LET n == em_connection_set_pipeline(em_conn) IN
       /\ em_conn' = n
       /\ lastOp' = [OpRecord("set_pipeline") EXCEPT
                       !.log = StatusLog(em_conn.status, n.status),
                       !.trace = (IF SetPipelineStopsOld(em_conn)
                                    THEN <<"pipeline-null">> ELSE <<>>)
                                 \o <<"pipeline-clear", "pipeline-set">>]
    /\ livePipelines' = IF SetPipelineStopsOld(em_conn) /\ pipeline_state = "PLAYING"
                          THEN livePipelines - 1 ELSE livePipelines
    /\ pipeline_state' = "NULL"
    /\ negotiated' = IF useWebrtc THEN FALSE ELSE negotiated
    /\ answer_pending' = IF useWebrtc THEN FALSE ELSE answer_pending
    /\ UNCHANGED <<aborted, useWebrtc, ws_closed, attempt, cancelled,
                   sc_pipeline, appsink, received_first_frame>>
    /\ UNCHANGED notConnVars

\* The appsink of a playing pipeline hands a decoded sample to
\* on_new_sample_cb.
appsink_new_sample(s) ==
    /\ ~aborted
    /\ pipeline_state = "PLAYING"
    /\ NewSampleStore(s)
    /\ lastOp' = OpRecord("new_sample")
    /\ UNCHANGED <<em_conn, aborted, useWebrtc, pipeline_state, negotiated, answer_pending,
                   ws_closed, livePipelines, attempt, cancelled, sc_pipeline,
                   appsink>>
    /\ UNCHANGED pullIdle
    /\ UNCHANGED muxVars
    /\ UNCHANGED extVars

\* soup_session_websocket_connect_async completes.  res is "ok" or "error"
\* for the attempt in flight and "cancelled" for an attempt whose cancellable
\* was cancelled by a teardown; eglOk is the result of
\* em_stream_client_egl_begin_pbuffer in the on-need-pipeline handler
\* (on_need_pipeline_cb), which hands over a pipeline only when it succeeds.
em_conn_websocket_connected_cb(res, eglOk) ==
    /\ ~aborted
    /\ IF res = "cancelled"
         THEN /\ cancelled > 0
              /\ cancelled' = cancelled - 1
              /\ attempt' = attempt
         ELSE /\ attempt
              /\ attempt' = FALSE
              /\ cancelled' = cancelled
    /\ LET rec(emitted, d, t) ==
               [OpRecord("ws_connected") EXCEPT
                   !.emitted = emitted, !.log = t,
                   !.released = Released(em_conn, d),
                   !.trace = <<res>>]
           c1 == WebsocketConnected(em_conn)
           l1 == StatusLog(em_conn.status, c1.status)
       IN
       IF em_conn.ws
         THEN \* g_assert(!em_conn->ws)
              /\ aborted' = TRUE
              /\ lastOp' = [rec(<<>>, em_conn, <<>>) EXCEPT !.op = "abort"]
              /\ UNCHANGED <<em_conn, pipeline_state, negotiated, answer_pending, ws_closed,
                             livePipelines, sc_pipeline, appsink,
                             received_first_frame>>
       ELSE IF ~FinishOk(res)
         THEN LET n == WebsocketFailed(em_conn) IN
              /\ em_conn' = n
              /\ lastOp' = rec(<<"websocket-failed">>, n,
                               StatusLog(em_conn.status, n.status))
              /\ UNCHANGED <<aborted, pipeline_state, negotiated, answer_pending, ws_closed,
                             livePipelines, sc_pipeline, appsink,
                             received_first_frame>>
       ELSE IF c1.pipeline
         THEN \* g_assert_null(em_conn->pipeline)
              /\ aborted' = TRUE
              /\ em_conn' = c1
              /\ lastOp' = [rec(<<"websocket-connected">>, c1, l1)
                               EXCEPT !.op = "abort"]
              /\ UNCHANGED <<pipeline_state, negotiated, answer_pending, ws_closed,
                             livePipelines, sc_pipeline, appsink,
                             received_first_frame>>
       ELSE IF eglOk
         THEN LET n == em_connection_set_pipeline(c1) IN
              /\ em_conn' = n
              /\ pipeline_state' = "PLAYING"
              /\ livePipelines' = livePipelines + 1
              /\ negotiated' = FALSE
              /\ answer_pending' = FALSE
              /\ ws_closed' = FALSE
              /\ sc_pipeline' = TRUE
              /\ appsink' = TRUE
              /\ received_first_frame' = FALSE
              /\ lastOp' = [rec(<<"websocket-connected", "on-need-pipeline",
                                  "set-pipeline">>, n,
                                l1 \o StatusLog(c1.status, n.status))
                               EXCEPT !.trace = <<res, "pipeline-playing">>]
              /\ UNCHANGED aborted
         ELSE \* "on-need-pipeline signal did not return a pipeline!"
              LET d == em_connection_disconnect(c1)
                  t == TeardownEffects(c1, d)
              IN
              /\ em_conn' = d
              /\ lastOp' = [rec(<<"websocket-connected", "on-need-pipeline">>
                                  \o t.emitted, d, l1 \o t.log)
                               EXCEPT !.closed = t.closed, !.cancel = t.cancel,
                                      !.released = Released(c1, d),
                                      !.trace = <<res>> \o t.trace]
              /\ TeardownRest(c1, d)
              /\ UNCHANGED <<aborted, received_first_frame>>
    /\ UNCHANGED useWebrtc
    /\ UNCHANGED notConnVars

\* em_connection_init, and em_stream_client_init for sc->pipeline
ConnInit ==
    /\ useWebrtc \in BOOLEAN
    /\ em_conn = [status |-> "IDLE_NOT_CONNECTED", ws_cancel |-> TRUE,
                  ws |-> FALSE, pipeline |-> FALSE, webrtcbin |-> FALSE,
                  datachannel |-> FALSE]
    /\ pipeline_state = "NULL"
    /\ negotiated = FALSE
    /\ answer_pending = FALSE
    /\ ws_closed = FALSE
    /\ livePipelines = 0
    /\ attempt = FALSE
    /\ cancelled = 0
    /\ sc_pipeline = FALSE
    /\ aborted = FALSE
    /\ lastOp = [op |-> "none", pre |-> em_conn, preAttempt |-> FALSE,
                 preState |-> "NULL", emitted |-> <<>>, log |-> <<>>,
                 released |-> {}, closed |-> FALSE, cancel |-> FALSE,
                 trace |-> <<>>, ret |-> FALSE, sent |-> "none",
                 prevOp |-> "none"]

ConnNext ==
    \/ em_connection_connect
    \/ CallDisconnect
    \/ \E res \in {"ok", "error", "cancelled"}, eglOk \in BOOLEAN :
          em_conn_websocket_connected_cb(res, eglOk)
    \/ em_conn_webrtc_on_data_channel_cb
    \/ em_conn_data_channel_close_cb
    \/ em_conn_data_channel_error_cb
    \/ \E msg_type \in {"offer", "candidate", "other"} :
          em_conn_on_ws_message_cb(msg_type)
    \/ em_conn_webrtc_on_answer_created
    \/ ws_peer_close
    \/ \E sendOk \in BOOLEAN : em_connection_send_bytes(sendOk)
    \/ CallSetPipeline
    \/ \E s \in Samples : appsink_new_sample(s)

\* The application assigns a pipeline through em_connection_set_pipeline
\* while the connection holds none: before connect(), or while the websocket
\* connect is in flight.
CallSetPipelineEarly ==
    /\ ~aborted
    /\ ~em_conn.pipeline
    /\ LET n == em_connection_set_pipeline(em_conn) IN
       /\ em_conn' = n
       /\ lastOp' = [OpRecord("set_pipeline") EXCEPT
                       !.log = StatusLog(em_conn.status, n.status),
                       !.trace = <<"pipeline-clear", "pipeline-set">>]
    /\ pipeline_state' = "NULL"
    /\ negotiated' = IF useWebrtc THEN FALSE ELSE negotiated
    /\ answer_pending' = IF useWebrtc THEN FALSE ELSE answer_pending
    /\ UNCHANGED <<aborted, useWebrtc, ws_closed, livePipelines, attempt, cancelled,
                   sc_pipeline, appsink, received_first_frame>>
    /\ UNCHANGED notConnVars

\* webrtcbin's on-data-channel signal reaches em_conn_webrtc_on_data_channel_cb
\* after the teardown that released webrtcbin: the callback, which runs on
\* webrtcbin's thread, looks at nothing but em_conn->datachannel.
em_conn_webrtc_on_data_channel_cb_late ==
    /\ ~aborted
    /\ useWebrtc
    /\ ~em_conn.webrtcbin
    /\ "webrtcbin" \in lastOp.released
    /\ IF em_conn.datachannel
         THEN \* g_assert_null(em_conn->datachannel)
              /\ aborted' = TRUE
              /\ lastOp' = OpRecord("abort")
              /\ UNCHANGED em_conn
         ELSE LET n == em_conn_update_status([em_conn EXCEPT !.datachannel = TRUE],
                                             "CONNECTED")
              IN /\ em_conn' = n
                 /\ lastOp' = [OpRecord("on_data_channel_late") EXCEPT
                                 !.emitted = <<"connected">>,
                                 !.log = StatusLog(em_conn.status, n.status)]
                 /\ UNCHANGED aborted
    /\ UNCHANGED connRest
    /\ UNCHANGED notConnVars

\* The connection with data-channel announcements that may also arrive late
ConnLateNext ==
    \/ ConnNext
    \/ em_conn_webrtc_on_data_channel_cb_late

\* The connection used by an application that also assigns pipelines outside
\* the on-need-pipeline handler
ConnEarlyNext ==
    \/ ConnNext
    \/ CallSetPipelineEarly

\* ------------------------------------------------------------------------
\* The metadata registers under concurrent probes
\*
\* The probe on the payloader's (depayloader's) sink pad and the probe on
\* its src pad run on different streaming threads.  Each step below is one
\* statement of a probe; registration k writes the payload named k.
\* ------------------------------------------------------------------------

\* Variables the register threads never touch
notRaceVars == <<muxVars, pullVars, connVars, ctrlVars, srvVars, upVars, codecVars, shareVars, stopVars, sizeVars, jointVars, handoffVars>>

\* Mutant of MutexFree: g_mutex_lock returns whoever holds the mutex.
MutexIgnored(holder) == TRUE

\* g_mutex_lock / g_mutex_locker_new returns only when nobody holds the mutex.
MutexFree(holder) == holder = "none"

\* rtppay_sink_pad_probe: lock, memcpy into preserved_metadata, set
\* preserved_metadata_size, unlock.
egp_sink_step ==
    /\ CASE egp_race.sink = "idle" ->
              /\ egp_race.regs < MaxRegistrations
              /\ MutexFree(egp_race.mutex)
              /\ egp_race' = [egp_race EXCEPT !.mutex = "sink", !.sink = "memcpy"]
         [] egp_race.sink = "memcpy" ->
              egp_race' = [egp_race EXCEPT !.data = egp_race.regs + 1,
                                           !.sink = "size"]
         [] egp_race.sink = "size" ->
              egp_race' = [egp_race EXCEPT !.size = egp_race.regs + 1,
                                           !.sink = "unlock"]
         [] egp_race.sink = "unlock" ->
              egp_race' = [egp_race EXCEPT !.mutex = "none", !.sink = "idle",
                                           !.regs = egp_race.regs + 1]
    /\ UNCHANGED sc_race
    /\ UNCHANGED notRaceVars

\* rtppay_src_pad_probe: lock, gst_rtp_buffer_add_extension_twobytes_header
\* with preserved_metadata_size and the bytes of preserved_metadata, unlock.
\* The register is left as it is.
egp_src_step ==
    /\ CASE egp_race.src = "idle" ->
              /\ egp_race.flushes < MaxFlushes
              /\ MutexFree(egp_race.mutex)
              /\ egp_race' = [egp_race EXCEPT !.mutex = "src", !.src = "size"]
         [] egp_race.src = "size" ->
              egp_race' = [egp_race EXCEPT !.read_size = egp_race.size,
                                           !.src = "copy"]
         [] egp_race.src = "copy" ->
              egp_race' = [egp_race EXCEPT !.read_data = egp_race.data,
                                           !.src = "unlock"]
         [] egp_race.src = "unlock" ->
              egp_race' = [egp_race EXCEPT
                  !.mutex = "none", !.src = "idle",
                  !.flushes = egp_race.flushes + 1,
                  !.carried = [k \in DOMAIN egp_race.carried |->
                                  IF k = egp_race.read_data
                                    THEN egp_race.carried[k] + 1
                                    ELSE egp_race.carried[k]]]
    /\ UNCHANGED sc_race
    /\ UNCHANGED notRaceVars

\* rtpdepay_sink_pad_probe on a packet that carries the extension: lock,
\* return if the register is occupied, else store a copy of the payload,
\* unlock (the locker is released on return).
sc_sink_step ==
    /\ CASE sc_race.sink = "idle" ->
              /\ sc_race.regs < MaxRegistrations
              /\ MutexFree(sc_race.mutex)
              /\ sc_race' = [sc_race EXCEPT !.mutex = "sink", !.sink = "check"]
         [] sc_race.sink = "check" ->
              sc_race' = [sc_race EXCEPT
                  !.sink = IF sc_race.buf # 0 THEN "unlock" ELSE "store"]
         [] sc_race.sink = "store" ->
              sc_race' = [sc_race EXCEPT !.buf = sc_race.regs + 1,
                                         !.sink = "unlock"]
         [] sc_race.sink = "unlock" ->
              sc_race' = [sc_race EXCEPT !.mutex = "none", !.sink = "idle",
                                         !.regs = sc_race.regs + 1]
    /\ UNCHANGED egp_race
    /\ UNCHANGED notRaceVars

\* rtpdepay_src_pad_probe: lock, return if the register is NULL, else attach
\* the held buffer to the outgoing buffer (unless gst_buffer_add_custom_meta
\* fails), unref it and set the register to NULL, unlock.
sc_src_step(metaOk) ==
    /\ CASE sc_race.src = "idle" ->
              /\ sc_race.flushes < MaxFlushes
              /\ MutexFree(sc_race.mutex)
              /\ sc_race' = [sc_race EXCEPT !.mutex = "src", !.src = "check"]
         [] sc_race.src = "check" ->
              sc_race' = [sc_race EXCEPT
                  !.src = IF sc_race.buf = 0 THEN "unlock"
                          ELSE IF metaOk THEN "attach" ELSE "clear"]
         [] sc_race.src = "attach" ->
              sc_race' = [sc_race EXCEPT
                  !.src = "clear",
                  !.attached = [k \in DOMAIN sc_race.attached |->
                                   IF k = sc_race.buf
                                     THEN sc_race.attached[k] + 1
                                     ELSE sc_race.attached[k]]]
         [] sc_race.src = "clear" ->
              sc_race' = [sc_race EXCEPT !.buf = 0, !.src = "unlock"]
         [] sc_race.src = "unlock" ->
              sc_race' = [sc_race EXCEPT !.mutex = "none", !.src = "idle",
                                         !.flushes = sc_race.flushes + 1]
    /\ UNCHANGED egp_race
    /\ UNCHANGED notRaceVars

\* ems_gstreamer_pipeline creation (g_mutex_init, zeroed register) and
\* em_stream_client_init
RaceInit ==
    /\ egp_race = [mutex |-> "none", sink |-> "idle", src |-> "idle",
                   data |-> 0, size |-> 0, regs |-> 0, flushes |-> 0,
                   read_size |-> 0, read_data |-> 0,
                   carried |-> [k \in 0..(MaxRegistrations + 1) |-> 0]]
    /\ sc_race = [mutex |-> "none", sink |-> "idle", src |-> "idle",
                  buf |-> 0, regs |-> 0, flushes |-> 0,
                  attached |-> [k \in 0..(MaxRegistrations + 1) |-> 0]]

RaceNext ==
    \/ egp_sink_step
    \/ egp_src_step
    \/ sc_sink_step
    \/ \E metaOk \in BOOLEAN : sc_src_step(metaOk)

\* ------------------------------------------------------------------------
\* Client: latency window, jitter-buffer depth and server times of a sample
\* (the body of em_stream_client_try_pull_sample for a sample whose Down
\* message has frame data)
\* ------------------------------------------------------------------------

\* Variables the latency controller never touches
notCtrlVars == <<muxVars, pullVars, connVars, raceVars, srvVars, upVars, codecVars, shareVars, stopVars, sizeVars, jointVars, handoffVars>>

\* Latencies of a frame (current_time - frame_push_clock_time), nanoseconds:
\* 50 ms and 134.5 ms, and -50 ms for a push time of the server's clock that
\* lies ahead of the client's pipeline clock
LatencySamples == {50 * NsPerMs, (269 * NsPerMs) \div 2, -50 * NsPerMs}

\* Offsets between the client's system clock and its pipeline clock
\* (now_ns - current_time), nanoseconds
ClockOffsets == {0, 3}

\* The Down message of a sample: its embedded server times and
\* server_system_clock_pipeline_clock_offset, nanoseconds
FrameRenderBeginTime == 5
FramePushTime == 7
FrameServerClockOffset == 3

RECURSIVE SumSeq(_)
SumSeq(q) == IF q = <<>> THEN 0 ELSE Head(q) + SumSeq(Tail(q))

Max(a, b) == IF a >= b THEN a ELSE b

\* The conversion of a quotient to an integer type truncates towards zero
TruncDiv(a, b) == IF a >= 0 THEN a \div b ELSE -((-a) \div b)

\* calculate_average_of_gint64, converted to int64_t by
\* em_stream_client_get_average_frame_latency
calculate_average_of_gint64(array) ==
    IF Len(array) = 0 THEN 0 ELSE TruncDiv(SumSeq(array), Len(array))

\* Mutant of WindowAfterEvaluation: the samples stay in the window.
WindowKept(array) == array

\* g_array_set_size(sc->latency_collection, 0)
WindowAfterEvaluation(array) == <<>>

\* int target_jitter_latency = time_ns_to_ms_f(sc->average_latency) * 1.5f:
\* the conversion to int truncates.
target_jitter_latency(ave_ns) == TruncDiv(ave_ns * 3, 2 * NsPerMs)

\* Mutant of JitterUpdate: the depth follows the target both ways.
JitterFollowsTarget(prev, target) == target

\* sc->max_jitter_latency = MAX(sc->max_jitter_latency - 10, target)
JitterUpdate(prev, target) == Max(prev - JitterDecayStepMs, target)

\* Mutant of EffectiveOffset: a zero offset of the connection is used as is.
EffectiveOffsetNoFallback(conn_off, client_off, server_off) == conn_off

\* The offset used for the frame: the connection's, or when that is zero the
\* difference of the client's and the server's system-clock-to-pipeline-clock
\* offsets.
EffectiveOffset(conn_off, client_off, server_off) ==
    IF conn_off = 0 THEN client_off - server_off ELSE conn_off

\* The clock of the client advances by a second.
CtrlTick ==
    /\ ctrl_now < MaxCtrlNow
    /\ ctrl_now' = ctrl_now + 1
    /\ UNCHANGED <<latency_collection, latency_last_time_query,
                   average_latency, max_jitter_latency, server_clock_offset,
                   lastEval, lastTiming>>
    /\ UNCHANGED notCtrlVars

\* The connection correlates the server clock with its own for the first
\* time; from then on em_connection_get_server_clock_offset returns the
\* estimate.
ClockOffsetSample ==
    /\ server_clock_offset = 0
    /\ server_clock_offset' = 4
    /\ UNCHANGED <<latency_collection, latency_last_time_query,
                   average_latency, max_jitter_latency, ctrl_now, lastEval,
                   lastTiming>>
    /\ UNCHANGED notCtrlVars

\* em_stream_client_try_pull_sample on a sample whose Down message has frame
\* data and both poses: the frame's latency is appended to the window; when
\* more than latency_calculation_window has passed since the last query the
\* window is averaged and emptied and the jitter buffer is adjusted
\* (em_stream_client_adjust_jitterbuffer); the server times of the sample
\* are written when the offset used is not zero.
try_pull_sample_frame_data(latency, client_off) ==
    /\ LET w == Append(latency_collection, latency)
           due == ctrl_now - latency_last_time_query > latency_calculation_window
           ave == calculate_average_of_gint64(w)
           target == target_jitter_latency(ave)
           depth == JitterUpdate(max_jitter_latency, target)
           off == EffectiveOffset(server_clock_offset, client_off,
                                  FrameServerClockOffset)
       IN
       /\ due \/ Len(w) <= MaxWindow
       /\ IF due
            THEN /\ latency_collection' = WindowAfterEvaluation(w)
                 /\ latency_last_time_query' = ctrl_now
                 /\ average_latency' = ave
                 /\ max_jitter_latency' = depth
                 /\ lastEval' = [n |-> lastEval.n + 1, len |-> Len(w),
                                 sum |-> SumSeq(w), mean |-> ave, prev |-> max_jitter_latency,
                                 target |-> target, depth |-> depth,
                                 gap |-> ctrl_now - latency_last_time_query,
                                 fresh |-> lastEval.pending + 1,
                                 pending |-> 0,
                                 directives |-> <<depth>>]
            ELSE /\ latency_collection' = w
                 /\ UNCHANGED <<latency_last_time_query, average_latency,
                                max_jitter_latency>>
                 /\ lastEval' = [lastEval EXCEPT
                                    !.pending = lastEval.pending + 1,
                                    !.directives = <<>>]
       /\ lastTiming' =
            [n |-> 1, conn_offset |-> server_clock_offset,
             client_off |-> client_off, offset |-> off,
             server_render_begin_time |->
                 IF off # 0 THEN off + FrameRenderBeginTime ELSE 0,
             server_push_time |->
                 IF off # 0 THEN off + FramePushTime ELSE 0]
    /\ UNCHANGED <<server_clock_offset, ctrl_now>>
    /\ UNCHANGED notCtrlVars

\* em_stream_client_init: the window is empty, latency_last_time_query is the
\* time of the call, the rest is zeroed; the connection has no clock sample.
CtrlInit ==
    /\ latency_collection = <<>>
    /\ latency_last_time_query = 0
    /\ average_latency = 0
    /\ max_jitter_latency = 0
    /\ server_clock_offset = 0
    /\ ctrl_now = 0
    /\ lastEval = [n |-> 0, len |-> 0, sum |-> 0, mean |-> 0, prev |-> 0,
                   target |-> 0, depth |-> 0, gap |-> 0, fresh |-> 0,
                   pending |-> 0, directives |-> <<>>]
    /\ lastTiming = [n |-> 0, conn_offset |-> 0, client_off |-> 0,
                     offset |-> 0,
                     server_render_begin_time |-> 0, server_push_time |-> 0]

CtrlNext ==
    \/ CtrlTick
    \/ ClockOffsetSample
    \/ \E latency \in LatencySamples, client_off \in ClockOffsets :
          try_pull_sample_frame_data(latency, client_off)

\* ------------------------------------------------------------------------
\* Server: handle_up_message, the bitrate policy
\* ------------------------------------------------------------------------

\* Variables handle_up_message never touches
notSrvVars == <<muxVars, pullVars, connVars, raceVars, ctrlVars, upVars, codecVars, shareVars, stopVars, sizeVars, jointVars, handoffVars>>

\* message.frame.average_latency of an UpMessage, nanoseconds
AverageLatencies == {50 * NsPerMs, 100 * NsPerMs, 200 * NsPerMs, 300 * NsPerMs}

\* Mutant of BitrateTier: the two middle tiers are merged.
BitrateTierMerged(max_latency_ns) ==
    IF max_latency_ns < 100 * NsPerMs THEN 8000
    ELSE IF max_latency_ns < 300 * NsPerMs THEN 4000
    ELSE 1000

\* target_bitrate as a function of max_latency_f = time_ns_to_ms_f(max)
BitrateTier(max_latency_ns) ==
    IF max_latency_ns < 100 * NsPerMs THEN 8000
    ELSE IF max_latency_ns >= 100 * NsPerMs /\ max_latency_ns < 200 * NsPerMs
      THEN 4000
    ELSE IF max_latency_ns >= 200 * NsPerMs /\ max_latency_ns < 300 * NsPerMs
      THEN 2000
    ELSE 1000

\* The clock of the server advances by a second.
SrvTick ==
    /\ srv_now < MaxSrvNow
    /\ srv_now' = srv_now + 1
    /\ UNCHANGED <<client_average_latency, last_time_change_bitrate,
                   max_latency_over_window, lastBitrate>>
    /\ UNCHANGED notSrvVars

\* handle_up_message on an UpMessage: nothing happens when it does not decode
\* or has no frame part; otherwise the client's average latency is stored,
\* the first frame message starts the window, a frame message more than
\* BitrateWindowSecs after the start of the window computes the target
\* bitrate from the window's maximum and starts a new window, and the
\* latency of this message is then merged into the window's maximum.
handle_up_message(decodeOk, has_frame, frame_average_latency) ==
    /\ IF ~decodeOk \/ ~has_frame
         THEN /\ UNCHANGED <<client_average_latency, last_time_change_bitrate,
                             max_latency_over_window>>
              /\ lastBitrate' = [lastBitrate EXCEPT !.evaluated = FALSE,
                                                    !.handled = FALSE]
         ELSE LET first == last_time_change_bitrate = 0
                  due == ~first /\ srv_now - last_time_change_bitrate
                                     > BitrateWindowSecs
                  m == IF due THEN 0 ELSE max_latency_over_window
              IN
              /\ client_average_latency' = frame_average_latency
              /\ last_time_change_bitrate' =
                    IF first \/ due THEN srv_now ELSE last_time_change_bitrate
              /\ max_latency_over_window' = Max(frame_average_latency, m)
              /\ lastBitrate' =
                    IF due
                      THEN [n |-> lastBitrate.n + 1, evaluated |-> TRUE,
                            handled |-> TRUE,
                            window_max |-> max_latency_over_window,
                            seen_max |-> lastBitrate.seen_now,
                            target_bitrate |-> BitrateTier(max_latency_over_window),
                            gap |-> srv_now - last_time_change_bitrate,
                            at |-> srv_now,
                            seen_now |-> frame_average_latency]
                      ELSE [lastBitrate EXCEPT
                              !.evaluated = FALSE, !.handled = TRUE,
                              !.gap = IF first THEN 0
                                      ELSE srv_now - last_time_change_bitrate,
                              !.at = srv_now,
                              !.seen_now = Max(lastBitrate.seen_now,
                                               frame_average_latency)]
    /\ UNCHANGED srv_now
    /\ UNCHANGED notSrvVars

\* The zero-initialised pipeline and the statics of handle_up_message
SrvInit ==
    /\ client_average_latency = 0
    /\ last_time_change_bitrate = 0
    /\ max_latency_over_window = 0
    /\ srv_now = 1
    /\ lastBitrate = [n |-> 0, evaluated |-> FALSE, handled |-> FALSE,
                      window_max |-> 0, seen_max |-> 0, target_bitrate |-> 0,
                      gap |-> 0, at |-> 0, seen_now |-> 0]

SrvNext ==
    \/ SrvTick
    \/ \E decodeOk, has_frame \in BOOLEAN, frame_average_latency \in AverageLatencies :
          handle_up_message(decodeOk, has_frame, frame_average_latency)

\* ------------------------------------------------------------------------
\* Client: emission of UpMessages (pose reports and frame acknowledgements)
\* ------------------------------------------------------------------------
notUpVars == <<muxVars, pullVars, connVars, raceVars, ctrlVars, srvVars, codecVars, shareVars, stopVars, sizeVars, jointVars, handoffVars>>

\* The two callers of em_remote_experience_emit_upmessage
Emitters == {"pose", "frame"}

\* Times handed to em_remote_experience_inner_poll_and_render_frame
DecodeEndTimes == {1, 2}
BeginFrameTimes == {3, 4}
PredictedDisplayTimes == {6, 7}

\* The counter left without its increment
FetchAddSkipped(n) == n

\* exp->nextUpMessage++ on a std::atomic_int64_t: the value stored by the
\* atomic read-modify-write
FetchAddResult(n) == n + 1

\* XrConvertTimespecTimeToTimeKHR: the XrTime of a timespec
convertTimespecTimeToTime(ts) == [xr |-> ts]

\* em_proto_UpFrameMessage_init_default
UpFrameMessage_init_default ==
    [frame_sequence_id |-> 0, decode_complete_time |-> [xr |-> 0],
     begin_frame_time |-> [xr |-> 0], display_time |-> 0]

\* The UpFrameMessage report_frame_timing fills in
UpFrameMessage(decodeEndTime, beginFrameTime, predictedDisplayTime) ==
    [UpFrameMessage_init_default EXCEPT
        !.decode_complete_time = convertTimespecTimeToTime(decodeEndTime),
        !.begin_frame_time = convertTimespecTimeToTime(beginFrameTime),
        !.display_time = predictedDisplayTime]

\* The first statements of em_remote_experience_emit_upmessage: the id is
\* taken from the counter and the counter advances, in one atomic step.
AssignUpMessageId(e) ==
    /\ up_msg' = [up_msg EXCEPT ![e] = nextUpMessage]
    /\ nextUpMessage' = FetchAddResult(nextUpMessage)
    /\ up_max' = Max(up_max, nextUpMessage)
    /\ lastUp' = [n |-> lastUp.n + 1, id |-> nextUpMessage, max_before |-> up_max,
                  kind |-> e]
    /\ up_pc' = [up_pc EXCEPT ![e] = "send"]

\* em_remote_experience_report_pose builds a tracking message and enters
\* em_remote_experience_emit_upmessage.
em_remote_experience_report_pose ==
    /\ up_pc["pose"] = "idle"
    /\ lastUp.n < MaxUpMessages
    /\ AssignUpMessageId("pose")
    /\ UNCHANGED <<up_sent, lastAck>>
    /\ UNCHANGED notUpVars

\* em_remote_experience_inner_poll_and_render_frame: a pulled sample is
\* drawn, becomes prev_sample, and report_frame_timing builds the frame
\* message and enters em_remote_experience_emit_upmessage.  sampleAvail is
\* whether em_stream_client_try_pull_sample returned a sample, sample_id its
\* frame_sequence_id, convOk whether both time conversions succeed.
em_remote_experience_inner_poll_and_render_frame(sampleAvail, sample_id, decodeEndTime, beginFrameTime, predictedDisplayTime, convOk) ==
    /\ up_pc["frame"] = "idle"
    /\ lastUp.n < MaxUpMessages
    /\ lastAck' = [rendered |-> sampleAvail,
                   emitted |-> sampleAvail /\ convOk,
                   sample_id |-> sample_id,
                   decodeEndTime |-> decodeEndTime,
                   beginFrameTime |-> beginFrameTime,
                   predictedDisplayTime |-> predictedDisplayTime,
                   frame |-> UpFrameMessage(decodeEndTime, beginFrameTime,
                                            predictedDisplayTime),
                   up_message_id |-> IF sampleAvail /\ convOk
                                       THEN nextUpMessage ELSE 0]
    /\ IF sampleAvail /\ convOk
         THEN AssignUpMessageId("frame")
         ELSE UNCHANGED <<nextUpMessage, up_pc, up_msg, up_max, lastUp>>
    /\ UNCHANGED up_sent
    /\ UNCHANGED notUpVars

\* The rest of em_remote_experience_emit_upmessage: the message is encoded
\* and handed to em_connection_send_bytes, whose result is sendOk.
em_remote_experience_emit_upmessage(e, sendOk) ==
    /\ up_pc[e] = "send"
    /\ up_sent' = Append(up_sent, [id |-> up_msg[e], kind |-> e, ok |-> sendOk])
    /\ up_pc' = [up_pc EXCEPT ![e] = "idle"]
    /\ UNCHANGED <<nextUpMessage, up_msg, up_max, lastUp, lastAck>>
    /\ UNCHANGED notUpVars

\* EmRemoteExperience as constructed: nextUpMessage{1}
UpInit ==
    /\ nextUpMessage = 1
    /\ up_pc = [e \in Emitters |-> "idle"]
    /\ up_msg = [e \in Emitters |-> 0]
    /\ up_max = 0
    /\ up_sent = <<>>
    /\ lastUp = [n |-> 0, id |-> 0, max_before |-> 0, kind |-> "pose"]
    /\ lastAck = [rendered |-> FALSE, emitted |-> FALSE, sample_id |-> 0,
                  decodeEndTime |-> 0, beginFrameTime |-> 0,
                  predictedDisplayTime |-> 0,
                  frame |-> UpFrameMessage_init_default, up_message_id |-> 0]

UpNext ==
    \/ em_remote_experience_report_pose
    \/ \E sampleAvail, convOk \in BOOLEAN, sample_id \in 0..MaxMsgId,
          decodeEndTime \in DecodeEndTimes, beginFrameTime \in BeginFrameTimes,
          predictedDisplayTime \in PredictedDisplayTimes :
          em_remote_experience_inner_poll_and_render_frame(
              sampleAvail, sample_id, decodeEndTime, beginFrameTime,
              predictedDisplayTime, convOk)
    \/ \E e \in Emitters, sendOk \in BOOLEAN :
          em_remote_experience_emit_upmessage(e, sendOk)

\* ------------------------------------------------------------------------
\* DownMessage on the wire: pb_encode on the server, pb_decode_ex on the client
\* ------------------------------------------------------------------------
notCodecVars == <<muxVars, pullVars, connVars, raceVars, ctrlVars, srvVars, upVars, shareVars, stopVars, sizeVars, jointVars, handoffVars>>

\* Protobuf wire types
WT_VARINT == 0
WT_STRING == 2
WT_32BIT == 5

\* IEEE-754 single precision values as their four little-endian bytes
Float0 == <<0, 0, 0, 0>>
Float1 == <<0, 0, 128, 63>>
Floats == {Float0, Float1}

\* int64 values of the scalar fields; 300 needs a two-byte varint
SequenceIds == {0, 1}
PushTimes == {0, 300}

\* The *_init_default values of the generated message structs.  A vector and
\* a quaternion are kept to one component, the frame data to the sequence id,
\* the two view poses and one of its int64 times; the field numbers stand for
\* those of the generated descriptors.
Vec3_init_default == [x |-> Float0]
Quaternion_init_default == [w |-> Float0]
Pose_init_default ==
    [has_position |-> FALSE, position |-> Vec3_init_default,
     has_orientation |-> FALSE, orientation |-> Quaternion_init_default]
DownFrameData_init_default ==
    [frame_sequence_id |-> 0,
     has_P_localSpace_view0 |-> FALSE, P_localSpace_view0 |-> Pose_init_default,
     has_P_localSpace_view1 |-> FALSE, P_localSpace_view1 |-> Pose_init_default,
     frame_push_time |-> 0]
em_proto_DownMessage_init_default ==
    [has_frame_data |-> FALSE, frame_data |-> DownFrameData_init_default]

\* Valid messages: an absent submessage holds its default content
Poses ==
    {[has_position |-> hp, position |-> [x |-> IF hp THEN px ELSE Float0],
      has_orientation |-> ho, orientation |-> [w |-> IF ho THEN ow ELSE Float0]] :
        hp \in BOOLEAN, px \in Floats, ho \in BOOLEAN, ow \in Floats}
DownFrameDatas ==
    {[frame_sequence_id |-> id,
      has_P_localSpace_view0 |-> h0,
      P_localSpace_view0 |-> IF h0 THEN p0 ELSE Pose_init_default,
      has_P_localSpace_view1 |-> h1,
      P_localSpace_view1 |-> IF h1 THEN p1 ELSE Pose_init_default,
      frame_push_time |-> t] :
        id \in SequenceIds, h0 \in BOOLEAN, p0 \in Poses, h1 \in BOOLEAN,
        p1 \in Poses, t \in PushTimes}
DownMessages ==
    {em_proto_DownMessage_init_default}
    \cup {[has_frame_data |-> TRUE, frame_data |-> fd] : fd \in DownFrameDatas}

\* pb_encode_varint for a non-negative value
RECURSIVE Varint(_)
Varint(n) == IF n < 128 THEN <<n>> ELSE <<128 + (n % 128)>> \o Varint(n \div 128)

\* pb_encode_tag
Tag(field, wt) == Varint(field * 8 + wt)

\* A submessage written without its length prefix
EncSubNoLength(field, body) == Tag(field, WT_STRING) \o body

\* pb_encode_submessage: tag, length, body
EncSub(field, body) == Tag(field, WT_STRING) \o Varint(Len(body)) \o body

\* A proto3 scalar: nothing is written for the zero value
EncVarintField(field, n) == IF n = 0 THEN <<>> ELSE Tag(field, WT_VARINT) \o Varint(n)
EncFloatField(field, f) == IF f = Float0 THEN <<>> ELSE Tag(field, WT_32BIT) \o f

\* An optional submessage is written only when its has_ flag is set
EncOptional(has, field, body) == IF has THEN EncSub(field, body) ELSE <<>>

EncVec3(v) == EncFloatField(1, v.x)
EncQuaternion(q) == EncFloatField(1, q.w)
EncPose(p) ==
    EncOptional(p.has_position, 1, EncVec3(p.position))
    \o EncOptional(p.has_orientation, 2, EncQuaternion(p.orientation))
EncDownFrameData(fd) ==
    EncVarintField(1, fd.frame_sequence_id)
    \o EncOptional(fd.has_P_localSpace_view0, 2, EncPose(fd.P_localSpace_view0))
    \o EncOptional(fd.has_P_localSpace_view1, 3, EncPose(fd.P_localSpace_view1))
    \o EncVarintField(4, fd.frame_push_time)

\* pb_encode(&os, em_proto_DownMessage_fields, msg)
pb_encode(m) == EncOptional(m.has_frame_data, 1, EncDownFrameData(m.frame_data))

\* pb_decode_varint: the value and the index after it
RECURSIVE ReadVarint(_, _)
ReadVarint(b, i) ==
    IF i > Len(b) THEN [ok |-> FALSE, val |-> 0, next |-> i]
    ELSE IF b[i] < 128 THEN [ok |-> TRUE, val |-> b[i], next |-> i + 1]
    ELSE LET r == ReadVarint(b, i + 1) IN
         [ok |-> r.ok, val |-> (b[i] - 128) + 128 * r.val, next |-> r.next]

ParseFailed == [ok |-> FALSE, fields |-> <<>>]
Prepend(x, r) == IF r.ok THEN [ok |-> TRUE, fields |-> <<x>> \o r.fields] ELSE ParseFailed

\* The field loop of pb_decode_inner: the fields of b from index i on.  A zero
\* tag ends the message under PB_DECODE_NULLTERMINATED and is an error
\* otherwise; the end of the stream ends the message.
RECURSIVE ParseFields(_, _, _)
ParseFields(b, i, nullterminated) ==
    IF i > Len(b) THEN [ok |-> TRUE, fields |-> <<>>]
    ELSE LET t == ReadVarint(b, i) IN
      IF ~t.ok THEN ParseFailed
      ELSE IF t.val = 0
        THEN (IF nullterminated THEN [ok |-> TRUE, fields |-> <<>>] ELSE ParseFailed)
      ELSE LET wt == t.val % 8
               f == t.val \div 8 IN
        IF wt = WT_VARINT
          THEN LET v == ReadVarint(b, t.next) IN
               IF ~v.ok THEN ParseFailed
               ELSE Prepend([field |-> f, wt |-> wt, val |-> v.val, bytes |-> <<>>],
                            ParseFields(b, v.next, nullterminated))
        ELSE IF wt = WT_32BIT
          THEN IF t.next + 3 > Len(b) THEN ParseFailed
               ELSE Prepend([field |-> f, wt |-> wt, val |-> 0,
                             bytes |-> SubSeq(b, t.next, t.next + 3)],
                            ParseFields(b, t.next + 4, nullterminated))
        ELSE IF wt = WT_STRING
          THEN LET l == ReadVarint(b, t.next) IN
               IF ~l.ok \/ l.next + l.val - 1 > Len(b) THEN ParseFailed
               ELSE Prepend([field |-> f, wt |-> wt, val |-> 0,
                             bytes |-> SubSeq(b, l.next, l.next + l.val - 1)],
                            ParseFields(b, l.next + l.val, nullterminated))
        ELSE ParseFailed

\* A field of the message arrives with the wire type of its descriptor
WireTypesOk(fs, desc) ==
    \A k \in DOMAIN fs : fs[k].field \in DOMAIN desc => fs[k].wt = desc[fs[k].field]
HasField(fs, f) == \E k \in DOMAIN fs : fs[k].field = f
LastField(fs, f) ==
    fs[CHOOSE k \in DOMAIN fs :
          /\ fs[k].field = f
          /\ \A j \in DOMAIN fs : fs[j].field = f => j <= k]

DecVec3(b) ==
    LET p == ParseFields(b, 1, FALSE) IN
    IF ~p.ok \/ ~WireTypesOk(p.fields, <<WT_32BIT>>)
      THEN [ok |-> FALSE, msg |-> Vec3_init_default]
      ELSE [ok |-> TRUE,
            msg |-> [x |-> IF HasField(p.fields, 1)
                             THEN LastField(p.fields, 1).bytes ELSE Float0]]
DecQuaternion(b) ==
    LET p == ParseFields(b, 1, FALSE) IN
    IF ~p.ok \/ ~WireTypesOk(p.fields, <<WT_32BIT>>)
      THEN [ok |-> FALSE, msg |-> Quaternion_init_default]
      ELSE [ok |-> TRUE,
            msg |-> [w |-> IF HasField(p.fields, 1)
                             THEN LastField(p.fields, 1).bytes ELSE Float0]]
DecPose(b) ==
    LET p == ParseFields(b, 1, FALSE)
        ok == p.ok /\ WireTypesOk(p.fields, <<WT_STRING, WT_STRING>>)
        hp == ok /\ HasField(p.fields, 1)
        ho == ok /\ HasField(p.fields, 2)
        pos == IF hp THEN DecVec3(LastField(p.fields, 1).bytes)
                     ELSE [ok |-> TRUE, msg |-> Vec3_init_default]
        ori == IF ho THEN DecQuaternion(LastField(p.fields, 2).bytes)
                     ELSE [ok |-> TRUE, msg |-> Quaternion_init_default] IN
    IF ~ok \/ ~pos.ok \/ ~ori.ok
      THEN [ok |-> FALSE, msg |-> Pose_init_default]
      ELSE [ok |-> TRUE,
            msg |-> [has_position |-> hp, position |-> pos.msg,
                     has_orientation |-> ho, orientation |-> ori.msg]]
DecDownFrameData(b) ==
    LET p == ParseFields(b, 1, FALSE)
        ok == p.ok /\ WireTypesOk(p.fields, <<WT_VARINT, WT_STRING, WT_STRING, WT_VARINT>>)
        h0 == ok /\ HasField(p.fields, 2)
        h1 == ok /\ HasField(p.fields, 3)
        v0 == IF h0 THEN DecPose(LastField(p.fields, 2).bytes)
                    ELSE [ok |-> TRUE, msg |-> Pose_init_default]
        v1 == IF h1 THEN DecPose(LastField(p.fields, 3).bytes)
                    ELSE [ok |-> TRUE, msg |-> Pose_init_default] IN
    IF ~ok \/ ~v0.ok \/ ~v1.ok
      THEN [ok |-> FALSE, msg |-> DownFrameData_init_default]
      ELSE [ok |-> TRUE,
            msg |-> [frame_sequence_id |-> IF HasField(p.fields, 1)
                                             THEN LastField(p.fields, 1).val ELSE 0,
                     has_P_localSpace_view0 |-> h0, P_localSpace_view0 |-> v0.msg,
                     has_P_localSpace_view1 |-> h1, P_localSpace_view1 |-> v1.msg,
                     frame_push_time |-> IF HasField(p.fields, 4)
                                           THEN LastField(p.fields, 4).val ELSE 0]]

\* pb_decode_ex(&istream, em_proto_DownMessage_fields, msg, flags): msg is set
\* to its defaults and the fields of the stream are stored into it.
pb_decode_ex(b, nullterminated) ==
    LET p == ParseFields(b, 1, nullterminated)
        ok == p.ok /\ WireTypesOk(p.fields, <<WT_STRING>>)
        hf == ok /\ HasField(p.fields, 1)
        fd == IF hf THEN DecDownFrameData(LastField(p.fields, 1).bytes)
                    ELSE [ok |-> TRUE, msg |-> DownFrameData_init_default] IN
    IF ~ok \/ ~fd.ok
      THEN [ok |-> FALSE, msg |-> em_proto_DownMessage_init_default]
      ELSE [ok |-> TRUE, msg |-> [has_frame_data |-> hf, frame_data |-> fd.msg]]

NoWire == [present |-> FALSE, bytes |-> <<>>]
NotDecoded ==
    [done |-> FALSE, mapped |-> FALSE, ok |-> FALSE,
     msg |-> em_proto_DownMessage_init_default]

\* ems_gstreamer_pipeline_encode_down_msg: the message is encoded into a
\* buffer of em_proto_DownMessage_size bytes, which every message fits, and
\* the written bytes are returned.
ems_gstreamer_pipeline_encode_down_msg(m) ==
    /\ down_src' = m
    /\ down_wire' = [present |-> TRUE, bytes |-> pb_encode(m)]
    /\ down_decoded' = NotDecoded
    /\ UNCHANGED notCodecVars

\* read_down_message_from_custom_meta on a buffer whose "protobuf" field
\* holds the encoder's bytes: the decode starts from
\* em_proto_DownMessage_init_default with PB_DECODE_NULLTERMINATED.
read_down_message(mapOk) ==
    /\ down_wire.present
    /\ down_decoded' = IF mapOk
                         THEN [done |-> TRUE, mapped |-> TRUE]
                              @@ pb_decode_ex(down_wire.bytes, TRUE)
                         ELSE [done |-> TRUE, mapped |-> FALSE, ok |-> FALSE,
                               msg |-> em_proto_DownMessage_init_default]
    /\ down_wire' = NoWire
    /\ UNCHANGED down_src
    /\ UNCHANGED notCodecVars

CodecInit ==
    /\ down_src = em_proto_DownMessage_init_default
    /\ down_wire = NoWire
    /\ down_decoded = NotDecoded

CodecNext ==
    \/ \E m \in DownMessages : ems_gstreamer_pipeline_encode_down_msg(m)
    \/ \E mapOk \in BOOLEAN : read_down_message(mapOk)

\* ------------------------------------------------------------------------
\* Client: the stream client's state touched by the pipeline thread
\* (on_new_sample_cb) and by the render thread (try_pull_sample), one
\* statement at a time
\* ------------------------------------------------------------------------
notShareVars == <<muxVars, pullVars, connVars, raceVars, ctrlVars, srvVars, upVars, codecVars, stopVars, sizeVars, jointVars, handoffVars>>

ShareThreads == {"pipeline", "render"}

\* The mutex of _EmStreamClient declared to guard a field, "none" if the
\* struct has no mutex for it
LockOf(var) ==
    CASE var \in {"sample", "sample_decode_end_time"} -> "sample_mutex"
      [] var = "skipped_frames" -> "skipped_frames_mutex"
      [] OTHER -> "none"

ShAccess(var, write) == [kind |-> "access", var |-> var, write |-> write, lock |-> "none"]
ShLock(lock) == [kind |-> "lock", var |-> "none", write |-> FALSE, lock |-> lock]
ShUnlock(lock) == [kind |-> "unlock", var |-> "none", write |-> FALSE, lock |-> lock]
ShNone == [kind |-> "none", var |-> "none", write |-> FALSE, lock |-> "none"]

\* The statements of on_new_sample_cb that touch shared state, in order
NewSampleProg ==
    << ShAccess("sample_decode_end_time", FALSE),   \* line 442
       ShLock("skipped_frames_mutex"),              \* line 450
       ShAccess("skipped_frames", FALSE),           \* line 451
       ShUnlock("skipped_frames_mutex"),            \* line 454
       ShLock("sample_mutex"),                      \* line 466
       ShAccess("sample", TRUE),                    \* lines 467-468
       ShAccess("sample_decode_end_time", TRUE),    \* line 469
       ShUnlock("sample_mutex") >>                  \* line 471

\* The statements of em_stream_client_try_pull_sample that touch shared
\* state, in order
PullProg ==
    << ShLock("sample_mutex"),                      \* line 967
       ShAccess("sample", TRUE),                    \* lines 968-969
       ShAccess("sample_decode_end_time", FALSE),   \* line 970
       ShUnlock("sample_mutex"),                    \* line 971
       ShLock("skipped_frames_mutex"),              \* lines 979, 988
       ShAccess("skipped_frames", TRUE),            \* lines 980, 989
       ShUnlock("skipped_frames_mutex"),            \* lines 984, 990
       ShAccess("last_down_msg", FALSE),            \* line 1004
       ShAccess("latency_collection", TRUE),        \* lines 1027-1031
       ShAccess("last_down_msg", TRUE) >>           \* line 1068

ShareProg(t) == IF t = "pipeline" THEN NewSampleProg ELSE PullProg

\* The statement a thread executes next
NextEntry(t) == IF sh_pc[t] = 0 THEN ShNone ELSE ShareProg(t)[sh_pc[t]]

\* Where em_stream_client_try_pull_sample goes after statement pc: it returns
\* NULL after the skipped-frame update when it took no sample, reads
\* last_down_msg when the Down message of the sample cannot be read, and
\* enters the frame-data branch when the message has both view poses.
PullAfter(pc, got, readOk, hasFrame) ==
    CASE pc = 7 -> (IF ~got THEN 0 ELSE IF ~readOk THEN 8 ELSE IF hasFrame THEN 9 ELSE 0)
      [] pc = 8 -> (IF hasFrame THEN 9 ELSE 0)
      [] pc = 10 -> 0
      [] OTHER -> pc + 1

\* One statement of thread t; after is the statement that follows it
ShareExec(t, after) ==
    LET e == NextEntry(t) IN
    /\ sh_pc' = [sh_pc EXCEPT ![t] = after]
    /\ CASE e.kind = "lock" ->
              /\ MutexFree(sh_holder[e.lock])
              /\ sh_holder' = [sh_holder EXCEPT ![e.lock] = t]
              /\ UNCHANGED <<sh_sample, sh_got, lastAccess>>
         [] e.kind = "unlock" ->
              /\ sh_holder' = [sh_holder EXCEPT ![e.lock] = "none"]
              /\ UNCHANGED <<sh_sample, sh_got, lastAccess>>
         [] e.kind = "access" ->
              /\ lastAccess' = [thread |-> t, var |-> e.var, write |-> e.write,
                                locked |-> /\ LockOf(e.var) # "none"
                                           /\ sh_holder[LockOf(e.var)] = t,
                                other |-> NextEntry(CHOOSE u \in ShareThreads : u # t)]
              /\ sh_sample' = IF e.var = "sample" THEN t = "pipeline" ELSE sh_sample
              /\ sh_got' = IF e.var = "sample" /\ t = "render" THEN sh_sample ELSE sh_got
              /\ UNCHANGED sh_holder
         [] OTHER ->
              UNCHANGED <<sh_holder, sh_sample, sh_got, lastAccess>>

\* The appsink calls on_new_sample_cb on the streaming thread; the thread
\* executes its next statement.
on_new_sample_cb_step ==
    /\ ShareExec("pipeline", IF sh_pc["pipeline"] = Len(NewSampleProg)
                               THEN 0 ELSE sh_pc["pipeline"] + 1)
    /\ UNCHANGED notShareVars

\* The render loop calls em_stream_client_try_pull_sample; the thread executes
\* its next statement.
try_pull_sample_step(readOk, hasFrame) ==
    /\ ShareExec("render", PullAfter(sh_pc["render"], sh_got, readOk, hasFrame))
    /\ UNCHANGED notShareVars

ShareInit ==
    /\ sh_pc = [t \in ShareThreads |-> 0]
    /\ sh_holder = [l \in {"sample_mutex", "skipped_frames_mutex"} |-> "none"]
    /\ sh_sample = FALSE
    /\ sh_got = FALSE
    /\ lastAccess = [thread |-> "none", var |-> "none", write |-> FALSE,
                     locked |-> FALSE, other |-> ShNone]

ShareNext ==
    \/ on_new_sample_cb_step
    \/ \E readOk, hasFrame \in BOOLEAN : try_pull_sample_step(readOk, hasFrame)

\* ------------------------------------------------------------------------
\* Client: the mainloop thread of the stream client and em_stream_client_stop
\* ------------------------------------------------------------------------
notStopVars == <<muxVars, pullVars, connVars, raceVars, ctrlVars, srvVars, upVars, codecVars, shareVars, sizeVars, jointVars, handoffVars>>

\* Whether the thread function of the mainloop thread can return: it runs
\* g_main_loop_run(sc->loop), and nothing calls g_main_loop_quit on sc->loop.
MainLoopReturns == FALSE

\* os_thread_helper_stop_and_wait joins the thread if one was started: it
\* returns at once without a started thread, and otherwise when the thread
\* function has returned.
JoinReturns(thread) == thread = "none" \/ MainLoopReturns

\* em_stream_client_spawn_thread: the connection is set and the thread
\* running em_stream_client_thread_func is started.
em_stream_client_spawn_thread ==
    /\ st_thread = "none"
    /\ st_caller = "free"
    /\ st_thread' = "running"
    /\ st_conn' = "idle"
    /\ UNCHANGED <<st_pipeline, st_state, pipeline_is_running, st_caller, lastStop>>
    /\ UNCHANGED notStopVars

\* The application connects the connection of the stream client.
StConnect ==
    /\ st_caller = "free"
    /\ st_conn = "idle"
    /\ st_conn' = "connecting"
    /\ UNCHANGED <<st_thread, st_pipeline, st_state, pipeline_is_running, st_caller,
                   lastStop>>
    /\ UNCHANGED notStopVars

\* on_need_pipeline_cb, dispatched by the mainloop when the websocket is
\* connected: the pipeline is built, pipeline_is_running is set, and the
\* connection starts the pipeline.
on_need_pipeline_cb ==
    /\ st_thread = "running"
    /\ st_conn = "connecting"
    /\ st_pipeline' = TRUE
    /\ st_state' = "PLAYING"
    /\ pipeline_is_running' = TRUE
    /\ st_conn' = "connected"
    /\ UNCHANGED <<st_thread, st_caller, lastStop>>
    /\ UNCHANGED notStopVars

\* on_drop_pipeline_cb, dispatched by the mainloop when the connection tears
\* down on a failure or a remote close
on_drop_pipeline_cb ==
    /\ st_thread = "running"
    /\ st_conn = "connected"
    /\ st_pipeline' = FALSE
    /\ st_state' = "NULL"
    /\ st_conn' = "idle"
    /\ UNCHANGED <<st_thread, pipeline_is_running, st_caller, lastStop>>
    /\ UNCHANGED notStopVars

\* em_stream_client_stop: with a pipeline it is set to NULL and the thread is
\* joined; the call goes on to disconnect, release the pipeline and clear
\* pipeline_is_running only when the join returns.
em_stream_client_stop ==
    /\ st_caller = "free"
    /\ lastStop.n < MaxStops
    /\ LET joins == st_pipeline
           returns == ~joins \/ JoinReturns(st_thread) IN
       /\ st_state' = IF joins THEN "NULL" ELSE st_state
       /\ st_thread' = IF joins /\ returns /\ st_thread = "running"
                         THEN "exited" ELSE st_thread
       /\ st_caller' = IF returns THEN "free" ELSE "blocked"
       /\ st_conn' = IF returns /\ st_conn # "none" THEN "idle" ELSE st_conn
       /\ st_pipeline' = IF returns THEN FALSE ELSE st_pipeline
       /\ pipeline_is_running' = IF returns THEN FALSE ELSE pipeline_is_running
       /\ lastStop' = [n |-> lastStop.n + 1,
                       spawned |-> st_thread = "running",
                       had_pipeline |-> st_pipeline,
                       pre_conn |-> st_conn,
                       returned |-> returns]
    /\ UNCHANGED notStopVars

\* em_stream_client_init: no thread, no pipeline, no connection
StopInit ==
    /\ st_thread = "none"
    /\ st_pipeline = FALSE
    /\ st_state = "NULL"
    /\ st_conn = "none"
    /\ pipeline_is_running = FALSE
    /\ st_caller = "free"
    /\ lastStop = [n |-> 0, spawned |-> FALSE, had_pipeline |-> FALSE,
                   pre_conn |-> "none", returned |-> FALSE]

StopNext ==
    \/ em_stream_client_spawn_thread
    \/ StConnect
    \/ on_need_pipeline_cb
    \/ on_drop_pipeline_cb
    \/ em_stream_client_stop

\* ------------------------------------------------------------------------
\* Server: the size of the encoded DownMessage and of the metadata register
\* (ems_gstreamer_pipeline.c)
\* ------------------------------------------------------------------------

notSizeVars == <<muxVars, pullVars, connVars, raceVars, ctrlVars, srvVars, upVars, codecVars, shareVars, stopVars, jointVars, handoffVars>>

\* #define RTP_TWOBYTES_HDR_EXT_MAX_SIZE 255: the size of preserved_metadata[]
RTP_TWOBYTES_HDR_EXT_MAX_SIZE == 255

\* pb_encode_varint writes at most 10 bytes for an int64
MaxVarintLen == 10

\* The int64 fields of DownFrameData: frame_sequence_id, render_begin_time,
\* frame_push_time, frame_push_clock_time,
\* server_system_clock_pipeline_clock_offset
NumInt64Fields == 5

\* Bytes of a varint holding a length
LengthPrefix(n) == IF n < 128 THEN 1 ELSE 2

\* A proto3 int64 field whose value takes len varint bytes, spread four times wider
Int64FieldSizeWide(len) == IF len = 0 THEN 0 ELSE 1 + 4 * len

\* A proto3 int64 field whose value takes len varint bytes (0: the zero
\* value, for which nothing is written)
Int64FieldSize(len) == IF len = 0 THEN 0 ELSE 1 + len

\* pb_encode_submessage: tag, length, body
SubSize(body) == 1 + LengthPrefix(body) + body

\* Vec3 holds three floats, Quaternion four; a float field is a tag and 4 bytes
Vec3Size == 3 * 5
QuaternionSize == 4 * 5

\* The shapes of a Pose and the bytes each one encodes to
PoseShapes == {"absent", "position", "full"}
PoseSize(shape) ==
    CASE shape = "absent" -> 0
      [] shape = "position" -> SubSize(SubSize(Vec3Size))
      [] shape = "full" -> SubSize(SubSize(Vec3Size) + SubSize(QuaternionSize))

\* The shapes of a DownMessage: how many int64 fields hold a value of the
\* longest encoding (all or none; the others are zero), and the shape of
\* each view pose
DownShapes ==
    {[has_frame_data |-> FALSE, wide |-> 0, view0 |-> "absent", view1 |-> "absent"]}
    \cup {[has_frame_data |-> TRUE, wide |-> n, view0 |-> p0, view1 |-> p1] :
            n \in {0, NumInt64Fields}, p0 \in PoseShapes, p1 \in PoseShapes}

DownFrameDataSize(sh) ==
    sh.wide * Int64FieldSize(MaxVarintLen) + PoseSize(sh.view0) + PoseSize(sh.view1)

\* os.bytes_written after pb_encode of a message of that shape
EncodedSize(sh) == IF sh.has_frame_data THEN SubSize(DownFrameDataSize(sh)) ELSE 0

NoMeta == -1

\* A frame with the encoded message of ems_gstreamer_pipeline_encode_down_msg
\* in its "down-message" meta reaches the payloader; a frame may carry no meta
push_frame(sh, withMeta) ==
    /\ sink_meta' = IF withMeta THEN EncodedSize(sh) ELSE NoMeta
    /\ sink_shape' = sh
    /\ UNCHANGED <<preserved_metadata_size, preserved_overrun, lastExt>>
    /\ UNCHANGED notSizeVars

\* rtppay_sink_pad_probe: memcpy of map_info.size bytes into the array
rtppay_sink_pad_probe_size(mapOk) ==
    /\ IF sink_meta # NoMeta /\ mapOk
       THEN /\ preserved_metadata_size' = sink_meta
            /\ preserved_overrun' =
                 IF sink_meta > RTP_TWOBYTES_HDR_EXT_MAX_SIZE
                 THEN sink_meta - RTP_TWOBYTES_HDR_EXT_MAX_SIZE
                 ELSE preserved_overrun
       ELSE UNCHANGED <<preserved_metadata_size, preserved_overrun>>
    /\ UNCHANGED <<sink_meta, sink_shape, lastExt>>
    /\ UNCHANGED notSizeVars

\* rtppay_src_pad_probe: the register goes into the two-byte header extension
rtppay_src_pad_probe_size ==
    /\ lastExt' = preserved_metadata_size
    /\ UNCHANGED <<sink_meta, sink_shape, preserved_metadata_size, preserved_overrun>>
    /\ UNCHANGED notSizeVars

SizeInit ==
    /\ sink_meta = NoMeta
    /\ sink_shape = [has_frame_data |-> FALSE, wide |-> 0, view0 |-> "absent", view1 |-> "absent"]
    /\ preserved_metadata_size = 0
    /\ preserved_overrun = 0
    /\ lastExt = NoMeta

SizeNext ==
    \/ \E sh \in DownShapes, withMeta \in BOOLEAN : push_frame(sh, withMeta)
    \/ \E mapOk \in BOOLEAN : rtppay_sink_pad_probe_size(mapOk)
    \/ rtppay_src_pad_probe_size

\* ------------------------------------------------------------------------
\* Server: decoding the hand joints of an UpMessage (ems_gstreamer_pipeline.c)
\* ------------------------------------------------------------------------

notJointVars == <<muxVars, pullVars, connVars, raceVars, ctrlVars, srvVars, upVars, codecVars, shareVars, stopVars, sizeVars, handoffVars>>

\* em_proto_HandJointLocation hand_joint_locations_left[26], _right[26]
HandJointCount == 26
Hands == {"left", "right"}

\* Values of location.index a client can put on the wire, and joint contents
JointIndices == {-1, 0, HandJointCount - 1, HandJointCount}
JointLocations == {1, 2}

\* The indices of a hand's array
JointRange == 0..(HandJointCount - 1)

\* em_UpMessageSuper message_super = {}: no entry of either array is set.
\* The arrays are kept as the set of their non-empty entries.
EmptyHands == {}

\* dest[index] = location for an index inside the array
StoreJoint(arrays, hand, index, location) ==
    {e \in arrays : ~(e.hand = hand /\ e.index = index)}
    \cup {[hand |-> hand, index |-> index, location |-> location]}

\* What a store outside the array can do: land in the array next to it in
\* the struct, overwrite other memory of the frame, or stop the process
StrayOutcomes == {"neighbour", "elsewhere", "crash"}

\* The element of the other array that lies at dest[index], if there is one
Neighbour(hand, index) ==
    IF hand = "left" /\ index >= HandJointCount /\ index < 2 * HandJointCount
    THEN [hand |-> "right", index |-> index - HandJointCount]
    ELSE IF hand = "right" /\ index < 0 /\ index >= -HandJointCount
    THEN [hand |-> "left", index |-> index + HandJointCount]
    ELSE [hand |-> "none", index |-> 0]

\* handle_up_message up to pb_decode_ex: a fresh message_super, the two
\* callbacks bound to its arrays
handle_up_message_begin ==
    /\ hj_pc = "idle"
    /\ hj_pc' = "decoding"
    /\ hand_joint_locations' = EmptyHands
    /\ hj_stray' = FALSE
    /\ lastJoint' = [n |-> 0, hand |-> "none", index |-> 0, decoded |-> FALSE, stored |-> "none"]
    /\ UNCHANGED notJointVars

\* ProtoMessage_decode_hand_joint_locations: one entry of one hand
ProtoMessage_decode_hand_joint_locations(hand, index, location, decodeOk, outcome) ==
    /\ hj_pc = "decoding"
    /\ IF ~decodeOk
       THEN \* return false: pb_decode_ex fails and handle_up_message returns
            /\ hj_pc' = "idle"
            /\ UNCHANGED <<hand_joint_locations, hj_stray>>
            /\ lastJoint' = [n |-> 1, hand |-> hand, index |-> index, decoded |-> FALSE, stored |-> "none"]
       ELSE IF index \in JointRange
       THEN \* dest[(int)location.index] = location
            /\ hand_joint_locations' = StoreJoint(hand_joint_locations, hand, index, location)
            /\ UNCHANGED <<hj_pc, hj_stray>>
            /\ lastJoint' = [n |-> 1, hand |-> hand, index |-> index, decoded |-> TRUE, stored |-> "array"]
       ELSE \* the same store, outside the array
            /\ outcome = "neighbour" => Neighbour(hand, index).hand # "none"
            /\ hand_joint_locations' =
                 IF outcome = "neighbour"
                 THEN StoreJoint(hand_joint_locations, Neighbour(hand, index).hand,
                                 Neighbour(hand, index).index, location)
                 ELSE hand_joint_locations
            /\ hj_stray' = (hj_stray \/ outcome = "elsewhere")
            /\ hj_pc' = IF outcome = "crash" THEN "crashed" ELSE hj_pc
            /\ lastJoint' = [n |-> 1, hand |-> hand, index |-> index, decoded |-> TRUE, stored |-> outcome]
    /\ UNCHANGED notJointVars

\* pb_decode_ex returned true: the message is handed on
handle_up_message_end ==
    /\ hj_pc = "decoding"
    /\ hj_pc' = "idle"
    /\ UNCHANGED <<hand_joint_locations, hj_stray, lastJoint>>
    /\ UNCHANGED notJointVars

JointInit ==
    /\ hj_pc = "idle"
    /\ hand_joint_locations = EmptyHands
    /\ hj_stray = FALSE
    /\ lastJoint = [n |-> 0, hand |-> "none", index |-> 0, decoded |-> FALSE, stored |-> "none"]

JointNext ==
    \/ handle_up_message_begin
    \/ \E hand \in Hands, index \in JointIndices, location \in JointLocations,
          decodeOk \in BOOLEAN, outcome \in StrayOutcomes :
          ProtoMessage_decode_hand_joint_locations(hand, index, location, decodeOk, outcome)
    \/ handle_up_message_end

\* ------------------------------------------------------------------------
\* Client: the hand-off of decoded samples from on_new_sample_cb to
\* em_stream_client_try_pull_sample, statement by statement
\* (em_stream_client.c)
\* ------------------------------------------------------------------------

notHandoffVars == <<muxVars, pullVars, connVars, raceVars, ctrlVars, srvVars, upVars, codecVars, shareVars, stopVars, sizeVars, jointVars>>

\* Decoded samples are numbered in the order the appsink delivers them
SampleIds == 1..MaxSamples
NoSampleId == 0

\* The number of gst_sample_unref / returns each sample has seen
NoCounts == [i \in SampleIds |-> 0]

\* on_need_pipeline_cb creates the appsink
HandoffSetup ==
    /\ ~ho_appsink
    /\ ho_appsink' = TRUE
    /\ UNCHANGED <<ho_pc, ho_mutex, ho_slot, ho_local, ho_made, ho_pulls,
                   ho_skipped, ho_fresh, ho_returned, ho_released, lastHandoff>>
    /\ UNCHANGED notHandoffVars

\* on_new_sample_cb, pipeline thread.  1: gst_app_sink_pull_sample;
\* 2: lock sample_mutex; 3: prev_sample = sc->sample; 4: sc->sample = sample;
\* 5: unlock; 6: gst_sample_unref(prev_sample) if there is one
on_new_sample_cb_handoff ==
    /\ ho_appsink
    /\ LET pc == ho_pc.pipeline
           loc == ho_local.pipeline
       IN
       CASE pc = 0 ->
              /\ ho_made < MaxSamples
              /\ ho_made' = ho_made + 1
              /\ ho_local' = [ho_local EXCEPT !.pipeline = [sample |-> ho_made + 1, prev |-> NoSampleId]]
              /\ ho_pc' = [ho_pc EXCEPT !.pipeline = 2]
              /\ UNCHANGED <<ho_mutex, ho_slot, ho_fresh, ho_released>>
         [] pc = 2 ->
              /\ MutexFree(ho_mutex)
              /\ ho_mutex' = "pipeline"
              /\ ho_pc' = [ho_pc EXCEPT !.pipeline = 3]
              /\ UNCHANGED <<ho_slot, ho_local, ho_made, ho_fresh, ho_released>>
         [] pc = 3 ->
              /\ ho_local' = [ho_local EXCEPT !.pipeline.prev = ho_slot]
              /\ ho_pc' = [ho_pc EXCEPT !.pipeline = 4]
              /\ UNCHANGED <<ho_mutex, ho_slot, ho_made, ho_fresh, ho_released>>
         [] pc = 4 ->
              /\ ho_slot' = loc.sample
              /\ ho_fresh' = ho_fresh + 1
              /\ ho_pc' = [ho_pc EXCEPT !.pipeline = 5]
              /\ UNCHANGED <<ho_mutex, ho_local, ho_made, ho_released>>
         [] pc = 5 ->
              /\ ho_mutex' = IF ho_mutex = "pipeline" THEN "none" ELSE ho_mutex
              /\ ho_pc' = [ho_pc EXCEPT !.pipeline = 6]
              /\ UNCHANGED <<ho_slot, ho_local, ho_made, ho_fresh, ho_released>>
         [] pc = 6 ->
              /\ ho_released' =
                   IF loc.prev # NoSampleId
                   THEN [ho_released EXCEPT ![loc.prev] = @ + 1]
                   ELSE ho_released
              /\ ho_local' = [ho_local EXCEPT !.pipeline = [sample |-> NoSampleId, prev |-> NoSampleId]]
              /\ ho_pc' = [ho_pc EXCEPT !.pipeline = 0]
              /\ UNCHANGED <<ho_mutex, ho_slot, ho_made, ho_fresh>>
    /\ UNCHANGED <<ho_appsink, ho_pulls, ho_skipped, ho_returned, lastHandoff>>
    /\ UNCHANGED notHandoffVars

\* em_stream_client_try_pull_sample, render thread.  0: the appsink test;
\* 2: lock sample_mutex; 3: sample = sc->sample; 4: sc->sample = NULL;
\* 5: unlock; 6: the skipped-frame counter and the return
em_stream_client_try_pull_sample_handoff ==
    /\ LET pc == ho_pc.render
           loc == ho_local.render
       IN
       CASE pc = 0 ->
              /\ ho_pulls < MaxPulls
              /\ ho_pulls' = ho_pulls + 1
              /\ IF ~ho_appsink
                 THEN /\ lastHandoff' = [n |-> ho_pulls + 1, ret |-> NoSampleId, appsink |-> FALSE,
                                         fresh |-> ho_fresh, skipped_before |-> ho_skipped,
                                         skipped_after |-> ho_skipped]
                      /\ UNCHANGED <<ho_pc, ho_local>>
                 ELSE /\ ho_pc' = [ho_pc EXCEPT !.render = 2]
                      /\ ho_local' = [ho_local EXCEPT !.render = [sample |-> NoSampleId, prev |-> ho_fresh]]
                      /\ UNCHANGED lastHandoff
              /\ UNCHANGED <<ho_mutex, ho_slot, ho_fresh, ho_skipped, ho_returned>>
         [] pc = 2 ->
              /\ MutexFree(ho_mutex)
              /\ ho_mutex' = "render"
              /\ ho_pc' = [ho_pc EXCEPT !.render = 3]
              /\ UNCHANGED <<ho_slot, ho_local, ho_pulls, ho_fresh, ho_skipped, ho_returned, lastHandoff>>
         [] pc = 3 ->
              /\ ho_local' = [ho_local EXCEPT !.render = [sample |-> ho_slot, prev |-> ho_fresh]]
              /\ ho_pc' = [ho_pc EXCEPT !.render = 4]
              /\ UNCHANGED <<ho_mutex, ho_slot, ho_pulls, ho_fresh, ho_skipped, ho_returned, lastHandoff>>
         [] pc = 4 ->
              /\ ho_slot' = NoSampleId
              /\ ho_fresh' = 0
              /\ ho_pc' = [ho_pc EXCEPT !.render = 5]
              /\ UNCHANGED <<ho_mutex, ho_local, ho_pulls, ho_skipped, ho_returned, lastHandoff>>
         [] pc = 5 ->
              /\ ho_mutex' = IF ho_mutex = "render" THEN "none" ELSE ho_mutex
              /\ ho_pc' = [ho_pc EXCEPT !.render = 6]
              /\ UNCHANGED <<ho_slot, ho_local, ho_pulls, ho_fresh, ho_skipped, ho_returned, lastHandoff>>
         [] pc = 6 ->
              /\ ho_skipped' = IF loc.sample = NoSampleId THEN ho_skipped + 1 ELSE 0
              /\ ho_returned' =
                   IF loc.sample # NoSampleId
                   THEN [ho_returned EXCEPT ![loc.sample] = @ + 1]
                   ELSE ho_returned
              /\ lastHandoff' = [n |-> ho_pulls, ret |-> loc.sample, appsink |-> TRUE,
                                 fresh |-> loc.prev, skipped_before |-> ho_skipped,
                                 skipped_after |-> IF loc.sample = NoSampleId
                                                   THEN ho_skipped + 1 ELSE 0]
              /\ ho_local' = [ho_local EXCEPT !.render = [sample |-> NoSampleId, prev |-> NoSampleId]]
              /\ ho_pc' = [ho_pc EXCEPT !.render = 0]
              /\ UNCHANGED <<ho_mutex, ho_slot, ho_pulls, ho_fresh>>
    /\ UNCHANGED <<ho_appsink, ho_made, ho_released>>
    /\ UNCHANGED notHandoffVars

HandoffInit ==
    /\ ho_appsink = FALSE
    /\ ho_pc = [pipeline |-> 0, render |-> 0]
    /\ ho_mutex = "none"
    /\ ho_slot = NoSampleId
    /\ ho_local = [pipeline |-> [sample |-> NoSampleId, prev |-> NoSampleId],
                   render |-> [sample |-> NoSampleId, prev |-> NoSampleId]]
    /\ ho_made = 0
    /\ ho_pulls = 0
    /\ ho_skipped = 0
    /\ ho_fresh = 0
    /\ ho_returned = NoCounts
    /\ ho_released = NoCounts
    /\ lastHandoff = [n |-> 0, ret |-> NoSampleId, appsink |-> FALSE, fresh |-> 0,
                      skipped_before |-> 0, skipped_after |-> 0]

HandoffNext ==
    \/ HandoffSetup
    \/ on_new_sample_cb_handoff
    \/ em_stream_client_try_pull_sample_handoff

\* ------------------------------------------------------------------------
\* Initial state and specifications
\* ------------------------------------------------------------------------
MuxInit ==
    /\ preserved_metadata = 0
    /\ frames = 0
    /\ payFrame = 0
    /\ payPkts = 0
    /\ pktSeq = 0
    /\ net = <<>>
    /\ preserved_metadata_struct_buf = NoBuf
    /\ depayFrame = 0
    /\ depayOuts = 0
    /\ unflushed = FALSE
    /\ latestReg = 0
    /\ overwritten = {}
    /\ lastFlush = [n |-> 0, frame |-> 0, hasExt |-> FALSE, ext |-> 0,
                    fresh |-> FALSE, latest |-> 0]
    /\ lastRx = [n |-> 0, hasExt |-> FALSE, ext |-> 0, before |-> NoBuf,
                 after |-> NoBuf]
    /\ lastOut = [frame |-> 0, hasMeta |-> FALSE, msg |-> 0, xid |-> 0,
                  before |-> NoBuf, after |-> NoBuf, metaOk |-> FALSE,
                  dup |-> FALSE]
    /\ attachedX = 0

\* em_stream_client_init: memset(sc, 0, sizeof(EmStreamClient))
PullInit ==
    /\ appsink = FALSE
    /\ sample = NoSample
    /\ sample_decode_end_time = 0
    /\ received_first_frame = FALSE
    /\ skipped_frames = 0
    /\ last_down_msg = DownMessage_init_default
    /\ now = 0
    /\ missRun = 0
    /\ lastGood = 0
    /\ lastGoodTime = 0
    /\ lastPull = [ret |-> "none", have_poses |-> FALSE, frame_sequence_id |-> 0,
                   own |-> FALSE, run |-> 0, good |-> 0, age |-> 0,
                   meta |-> "null", last_before |-> DownMessage_init_default,
                   latency_of |-> 0]

Init == MuxInit /\ PullInit /\ ConnInit /\ RaceInit /\ CtrlInit /\ SrvInit /\ UpInit /\ CodecInit /\ ShareInit /\ StopInit /\ SizeInit /\ JointInit /\ HandoffInit

MuxNext ==
    \/ \E hasMeta \in BOOLEAN : rtppay_sink_pad_probe(hasMeta)
    \/ \E addOk \in BOOLEAN : rtppay_src_pad_probe(addOk)
    \/ NetLose
    \/ rtpdepay_sink_pad_probe
    \/ \E metaOk \in BOOLEAN : rtpdepay_src_pad_probe(metaOk)

\* The components that never call into the connection neither read nor
\* change the build flag: their specifications start from one build.
InitOneBuild == Init /\ useWebrtc

SpecMux == InitOneBuild /\ [][MuxNext]_vars

PullNext ==
    \/ PullSetup
    \/ Tick
    \/ \E s \in Samples : on_new_sample_cb(s)
    \/ em_stream_client_try_pull_sample

SpecPull == InitOneBuild /\ [][PullNext]_vars

SpecConn == Init /\ [][ConnNext]_vars

SpecConnEarly == Init /\ [][ConnEarlyNext]_vars

SpecConnLate == Init /\ [][ConnLateNext]_vars

SpecRace == InitOneBuild /\ [][RaceNext]_vars

SpecCtrl == InitOneBuild /\ [][CtrlNext]_vars

SpecSrv == InitOneBuild /\ [][SrvNext]_vars

SpecUp == InitOneBuild /\ [][UpNext]_vars

SpecCodec == InitOneBuild /\ [][CodecNext]_vars

SpecShare == InitOneBuild /\ [][ShareNext]_vars

SpecStop == Init /\ [][StopNext]_vars

SpecSize == InitOneBuild /\ [][SizeNext]_vars

SpecJoint == InitOneBuild /\ [][JointNext]_vars

SpecHandoff == InitOneBuild /\ [][HandoffNext]_vars

\* ------------------------------------------------------------------------
\* Claims about the Down-message fallback (SpecPull)
\* ------------------------------------------------------------------------

\* C6: a pulled frame without a Down message of its own is reported with
\* have_poses false once 10 frames in a row had no Down message, or 1 second
\* has passed, since the last frame whose Down message was attached.
C6_FallbackBound ==
    (/\ lastPull.ret = "sample"
     /\ ~lastPull.own
     /\ lastPull.good # 0
     /\ \/ lastPull.run >= EM_NO_DOWN_MSG_FALLBACK_SKIPPED_FRAME_THRESHOLD
        \/ lastPull.age >= EM_NO_DOWN_MSG_FALLBACK_TIMEOUT_SECS)
    => ~lastPull.have_poses

\* C7: a pulled frame without a Down message of its own, fewer than 10 such
\* frames in a row and less than 1 second after the last frame whose Down
\* message was attached and gave both poses, is reported with the poses and
\* the frame data of that message.
C7_FallbackReuse ==
    (/\ lastPull.ret = "sample"
     /\ ~lastPull.own
     /\ lastPull.good # 0
     /\ lastPull.run < EM_NO_DOWN_MSG_FALLBACK_SKIPPED_FRAME_THRESHOLD
     /\ lastPull.age < EM_NO_DOWN_MSG_FALLBACK_TIMEOUT_SECS)
    => /\ lastPull.have_poses
       /\ lastPull.frame_sequence_id = lastPull.good
       /\ last_down_msg = [id |-> lastPull.good, poses |-> TRUE]

\* C7 witness: the third frame in a row without a Down message reuses the
\* message of the last good frame.
C7_Witness ==
    /\ lastPull.ret = "sample"
    /\ ~lastPull.own
    /\ lastPull.good = MaxMsgId
    /\ lastPull.run = 3
    /\ lastPull.age = 0
    /\ lastPull.have_poses
    /\ lastPull.frame_sequence_id = MaxMsgId

\* ------------------------------------------------------------------------
\* Claims about the metadata multiplexer (SpecMux)
\* ------------------------------------------------------------------------

\* C1: every media unit that leaves the client's depayload stage with a Down
\* message attached carries the message of its own frame, never the message
\* of another frame, also when packets are lost or the depayloader drops
\* data between its sink and its src pad.
C1_FrameCorrespondence ==
    (lastOut.hasMeta /\ lastOut.msg # 0) => lastOut.msg = lastOut.frame

C3_ReceiveRegister ==
    /\ ~lastOut.dup
    /\ lastOut.after = NoBuf
    /\ (lastOut.frame # 0 /\ lastOut.before = NoBuf) => ~lastOut.hasMeta
    /\ (lastOut.frame # 0 /\ lastOut.before # NoBuf /\ lastOut.metaOk) =>
          /\ lastOut.hasMeta
          /\ lastOut.msg = lastOut.before.msg
          /\ lastOut.xid = lastOut.before.xid
    /\ lastOut.hasMeta => lastOut.before # NoBuf
    /\ preserved_metadata_struct_buf # NoBuf =>
          preserved_metadata_struct_buf.xid > attachedX

\* C3 witness: a held payload was attached to a unit and the register is
\* empty again.
C3_Witness ==
    /\ lastOut.hasMeta
    /\ lastOut.before # NoBuf
    /\ lastOut.msg # 0
    /\ preserved_metadata_struct_buf = NoBuf

C5_SendLatestWins ==
    /\ lastFlush.hasExt => lastFlush.ext \notin overwritten
    /\ unflushed => preserved_metadata = latestReg
    /\ (lastFlush.n > 0 /\ lastFlush.hasExt /\ lastFlush.fresh) =>
          lastFlush.ext = lastFlush.latest
    /\ preserved_metadata \in 0..MaxFrames

\* C5 witness: two registrations were made before a unit flushed, and the
\* unit carries the later one.
C5_Witness ==
    /\ overwritten # {}
    /\ lastFlush.hasExt
    /\ lastFlush.fresh
    /\ lastFlush.ext = latestReg
    /\ lastFlush.ext \notin overwritten

\* ------------------------------------------------------------------------
\* Claims about the signaling connection (SpecConn)
\* ------------------------------------------------------------------------

\* C8: no teardown is skipped: whenever the connection starts reporting
\* CONNECTING, the status reported just before is IDLE_NOT_CONNECTED; a
\* connect() has by then cancelled the attempt in flight, released every
\* reference of the previous session and emitted on-drop-pipeline for its
\* pipeline; and while CONNECTING is reported the connection holds nothing of
\* an earlier session.
C8_NoSkippedTeardown ==
    /\ \A i \in 1..Len(lastOp.log) :
          lastOp.log[i] = "CONNECTING" =>
              (IF i = 1 THEN lastOp.pre.status ELSE lastOp.log[i - 1])
                  = "IDLE_NOT_CONNECTED"
    /\ lastOp.op = "connect" =>
          /\ em_conn.status = "CONNECTING"
          /\ lastOp.released = {f \in ConnRefs : lastOp.pre[f]}
          /\ lastOp.closed = lastOp.pre.ws
          /\ lastOp.preAttempt => lastOp.cancel
          /\ lastOp.emitted =
                IF lastOp.pre.pipeline THEN <<"on-drop-pipeline">> ELSE <<>>
    /\ em_conn.status = "CONNECTING" =>
          /\ ~em_conn.ws
          /\ ~em_conn.pipeline
          /\ ~em_conn.webrtcbin
          /\ ~em_conn.datachannel
          /\ ~sc_pipeline
          /\ attempt

\* C8 witness: connect() is called on a connected session with a pipeline;
\* the session is torn down to IDLE_NOT_CONNECTED before CONNECTING.
C8_Witness ==
    /\ lastOp.op = "connect"
    /\ lastOp.pre.status = "CONNECTED"
    /\ lastOp.pre.pipeline
    /\ lastOp.pre.ws
    /\ lastOp.log = <<"IDLE_NOT_CONNECTED", "CONNECTING">>
    /\ em_conn.status = "CONNECTING"

\* C9: disconnect() is idempotent: a disconnect() called right after a
\* disconnect() releases nothing, closes nothing, emits no on-drop-pipeline,
\* changes no status and leaves the connection exactly as the first call left
\* it, with no session resource held.
C9_DisconnectIdempotent ==
    (lastOp.op = "disconnect" /\ lastOp.prevOp = "disconnect") =>
        /\ lastOp.emitted = <<>>
        /\ lastOp.log = <<>>
        /\ lastOp.released = {}
        /\ ~lastOp.closed
        /\ ~lastOp.cancel
        /\ em_conn = lastOp.pre
        /\ em_conn.status = "IDLE_NOT_CONNECTED"
        /\ \A f \in ConnRefs : ~em_conn[f]

\* C9 witness: disconnect() was called twice in a row.
C9_Witness ==
    /\ lastOp.op = "disconnect"
    /\ lastOp.prevOp = "disconnect"
    /\ em_conn.status = "IDLE_NOT_CONNECTED"

\* C10: when disconnect() returns, whatever the state it was called in, the
\* websocket has been closed if there was one and is released, on-drop-pipeline
\* has been emitted exactly once if a pipeline had been handed to the
\* connection and not at all otherwise, the pipeline, webrtcbin and data
\* channel references are released, and the status is IDLE_NOT_CONNECTED, the
\* status of a disconnect requested by the user.
C10_DisconnectPostconditions ==
    lastOp.op = "disconnect" =>
        /\ ~em_conn.ws
        /\ lastOp.closed = lastOp.pre.ws
        /\ ~em_conn.ws_cancel
        /\ lastOp.emitted =
              IF lastOp.pre.pipeline THEN <<"on-drop-pipeline">> ELSE <<>>
        /\ ~em_conn.pipeline
        /\ ~em_conn.webrtcbin
        /\ ~em_conn.datachannel
        /\ ~sc_pipeline
        /\ em_conn.status = "IDLE_NOT_CONNECTED"

\* C10 witness: disconnect() was called on a connected WebRTC session that
\* held a websocket, a pipeline, webrtcbin and a data channel.
C10_Witness ==
    /\ lastOp.op = "disconnect"
    /\ lastOp.pre.status = "CONNECTED"
    /\ lastOp.pre.ws
    /\ lastOp.pre.pipeline
    /\ lastOp.pre.webrtcbin
    /\ lastOp.pre.datachannel
    /\ lastOp.emitted = <<"on-drop-pipeline">>
    /\ em_conn.status = "IDLE_NOT_CONNECTED"

\* C11: em_connection_send_bytes called in any status other than CONNECTED
\* returns false, hands nothing to the data channel or the websocket and
\* changes nothing in the connection; it returns true only in CONNECTED.
C11_SendOnlyConnected ==
    lastOp.op = "send" =>
        /\ lastOp.pre.status # "CONNECTED" =>
              /\ ~lastOp.ret
              /\ lastOp.sent = "none"
              /\ em_conn = lastOp.pre
              /\ lastOp.log = <<>>
              /\ lastOp.emitted = <<>>
              /\ lastOp.released = {}
        /\ lastOp.ret => lastOp.pre.status = "CONNECTED"
        /\ lastOp.sent # "none" => lastOp.pre.status = "CONNECTED"

\* C11 witness: bytes were offered while the websocket was up and the status
\* was still NEGOTIATING, and were refused.
C11_Witness ==
    /\ lastOp.op = "send"
    /\ lastOp.pre.status = "NEGOTIATING"
    /\ lastOp.pre.ws
    /\ ~lastOp.ret
    /\ lastOp.sent = "none"

C13_ConnectOnlyFromIdle ==
    (lastOp.op = "connect" /\ lastOp.pre.status \notin IdleOrDisconnected) =>
        /\ \A i \in 1..Len(lastOp.trace) : lastOp.trace[i] # "connect-async"
        /\ em_conn.status # "CONNECTING"

\* C13 as amended: connect() may be called in any status; it first tears the
\* connection down as disconnect() does, cancelling an attempt in flight,
\* then starts one websocket connect; when it returns the status is
\* CONNECTING and exactly one attempt that is not cancelled is pending.
C13_ConnectFromAnyState ==
    lastOp.op = "connect" =>
        /\ em_conn.status = "CONNECTING"
        /\ em_conn.ws_cancel
        /\ attempt
        /\ Cardinality({i \in 1..Len(lastOp.trace) :
                          lastOp.trace[i] = "connect-async"}) = 1
        /\ lastOp.trace[Len(lastOp.trace)] = "connect-async"
        /\ lastOp.preAttempt => lastOp.cancel
        /\ lastOp.released = {f \in ConnRefs : lastOp.pre[f]}

\* C13 witness: connect() was called while NEGOTIATING, with the websocket
\* and a pipeline held, and started a new attempt.
C13_Witness ==
    /\ lastOp.op = "connect"
    /\ lastOp.pre.status = "NEGOTIATING"
    /\ lastOp.pre.ws
    /\ lastOp.pre.pipeline
    /\ em_conn.status = "CONNECTING"
    /\ attempt

\* The latest operation was a websocket connect callback whose
\* on-need-pipeline handler returned without handing over a pipeline.
NoPipelineProvided ==
    /\ lastOp.op = "ws_connected"
    /\ \E i \in 1..Len(lastOp.emitted) : lastOp.emitted[i] = "on-need-pipeline"
    /\ \A i \in 1..Len(lastOp.emitted) : lastOp.emitted[i] # "set-pipeline"

\* C14 as stated: when the on-need-pipeline handler supplies no pipeline the
\* status becomes a disconnected status of its own, with the reason
\* NoPipelineProvided.
C14_NoPipelineReason ==
    NoPipelineProvided => DisconnectReason(em_conn.status) = "NoPipelineProvided"

\* C14 as amended: when the on-need-pipeline handler supplies no pipeline the
\* attempt is failed by an ordinary disconnect: no pipeline is started, the
\* websocket is closed and every reference of the attempt released,
\* on-drop-pipeline is not emitted, and the status becomes
\* IDLE_NOT_CONNECTED, the status a disconnect requested by the application
\* leaves.
C14_NoPipelineDisconnects ==
    NoPipelineProvided =>
        /\ em_conn.status = "IDLE_NOT_CONNECTED"
        /\ lastOp.log[Len(lastOp.log)] = "IDLE_NOT_CONNECTED"
        /\ \A f \in ConnRefs : ~em_conn[f]
        /\ lastOp.closed
        /\ pipeline_state = "NULL"
        /\ livePipelines = 0
        /\ \A i \in 1..Len(lastOp.trace) : lastOp.trace[i] # "pipeline-playing"
        /\ \A i \in 1..Len(lastOp.emitted) :
              lastOp.emitted[i] \notin {"on-drop-pipeline", "connected"}

\* C14 witness: the websocket connected, on-need-pipeline was emitted and no
\* pipeline came back.
C14_Witness ==
    /\ NoPipelineProvided
    /\ lastOp.pre.status = "CONNECTING"
    /\ lastOp.emitted = <<"websocket-connected", "on-need-pipeline">>
    /\ em_conn.status = "IDLE_NOT_CONNECTED"

\* C15: when the websocket of the attempt in flight fails to connect, the
\* attempt ends with the status WEBSOCKET_FAILED (signaling failed),
\* websocket-failed is the only signal emitted, neither on-need-pipeline nor
\* connected is emitted, and nothing of a session is held afterwards.
C15_WebsocketFailure ==
    /\ (lastOp.op = "ws_connected" /\ lastOp.trace[1] = "error") =>
          /\ em_conn.status = "WEBSOCKET_FAILED"
          /\ DisconnectReason(em_conn.status) = "SignalingFailed"
          /\ lastOp.emitted = <<"websocket-failed">>
          /\ lastOp.preAttempt
          /\ ~attempt
          /\ ~em_conn.ws
          /\ ~em_conn.pipeline
          /\ pipeline_state = "NULL"
    /\ em_conn.status = "WEBSOCKET_FAILED" =>
          /\ ~em_conn.ws
          /\ ~em_conn.pipeline
          /\ ~em_conn.webrtcbin
          /\ ~em_conn.datachannel

\* C15 witness: the attempt started by connect() failed.
C15_Witness ==
    /\ lastOp.op = "ws_connected"
    /\ lastOp.trace = <<"error">>
    /\ lastOp.pre.status = "CONNECTING"
    /\ lastOp.log = <<"WEBSOCKET_FAILED">>
    /\ lastOp.emitted = <<"websocket-failed">>

\* C16: once the status is CONNECTED, a close by the peer of the channel that
\* carries the control data (the data channel in a build with USE_WEBRTC, the
\* websocket in a build without) ends the session with
\* DISCONNECTED_REMOTE_CLOSE, and a data-channel error ends it with
\* DISCONNECTED_ERROR; both perform the teardown of disconnect(): the pipeline
\* is stopped, on-drop-pipeline is emitted once and the websocket is closed
\* and released.
C16_RemoteCloseTearsDown ==
    /\ (/\ lastOp.pre.status = "CONNECTED"
        /\ \/ lastOp.op = "dc_close"
           \/ lastOp.op = "ws_peer_close" /\ ~useWebrtc) =>
          /\ em_conn.status = "DISCONNECTED_REMOTE_CLOSE"
          /\ \A f \in ConnRefs : ~em_conn[f]
          /\ pipeline_state = "NULL"
          /\ lastOp.emitted = <<"on-drop-pipeline">>
    /\ (lastOp.pre.status = "CONNECTED" /\ lastOp.op = "dc_error") =>
          /\ em_conn.status = "DISCONNECTED_ERROR"
          /\ \A f \in ConnRefs : ~em_conn[f]
          /\ pipeline_state = "NULL"
          /\ lastOp.emitted = <<"on-drop-pipeline">>

\* C17: the idle and disconnected statuses are terminal for the attempt: a
\* step that is neither connect() nor disconnect() and starts in
\* IDLE_NOT_CONNECTED, WEBSOCKET_FAILED, DISCONNECTED_REMOTE_CLOSE or
\* DISCONNECTED_ERROR leaves the status as it was, logs no status change and
\* emits neither on-need-pipeline nor connected; in particular the completion
\* callback of an attempt that has ended changes nothing.
C17_TerminalUntilConnect ==
    (/\ lastOp.op \notin {"none", "connect", "disconnect"}
     /\ lastOp.pre.status \in IdleOrDisconnected) =>
       /\ em_conn.status = lastOp.pre.status
       /\ lastOp.log = <<>>
       /\ \A i \in 1..Len(lastOp.emitted) :
             lastOp.emitted[i] \notin {"on-need-pipeline", "connected"}

\* C18: disconnect() during CONNECTING cancels the attempt and leaves the
\* status IDLE_NOT_CONNECTED at once; the completion callback of a cancelled
\* attempt takes the error path: it emits neither websocket-connected nor
\* on-need-pipeline, installs nothing, and leaves the status WEBSOCKET_FAILED,
\* never CONNECTING, NEGOTIATING or CONNECTED.
C18_CancelledAttemptEnds ==
    /\ (lastOp.op = "disconnect" /\ lastOp.pre.status = "CONNECTING") =>
          /\ em_conn.status = "IDLE_NOT_CONNECTED"
          /\ lastOp.cancel
          /\ ~attempt
    /\ (lastOp.op = "ws_connected" /\ lastOp.trace[1] = "cancelled") =>
          /\ lastOp.emitted = <<"websocket-failed">>
          /\ em_conn.status = "WEBSOCKET_FAILED"
          /\ em_conn.status \in IdleOrDisconnected
          /\ em_conn.ws = lastOp.pre.ws
          /\ em_conn.pipeline = lastOp.pre.pipeline
          /\ pipeline_state = lastOp.preState

\* C18 witness: the callback of an attempt cancelled by disconnect() has run
\* while the session was idle.
C18_Witness ==
    /\ lastOp.op = "ws_connected"
    /\ lastOp.trace[1] = "cancelled"
    /\ lastOp.prevOp = "disconnect"
    /\ lastOp.pre.status = "IDLE_NOT_CONNECTED"

\* C19: a disconnect() of a session whose pipeline is playing sets the
\* pipeline to GST_STATE_NULL, then emits on-drop-pipeline, and only then
\* closes and releases the websocket; when it returns the pipeline is stopped
\* and the stream client has dropped its pipeline and appsink.  A new-sample
\* callback runs only for a pipeline that the connection holds and that is
\* playing, and a connection that holds no pipeline has none playing.
C19_TeardownOrder ==
    /\ (lastOp.op = "disconnect" /\ lastOp.preState = "PLAYING") =>
          /\ \E i, j, k \in 1..Len(lastOp.trace) :
                /\ lastOp.trace[i] = "pipeline-null"
                /\ lastOp.trace[j] = "on-drop-pipeline"
                /\ lastOp.trace[k] = "ws-clear"
                /\ i < j
                /\ j < k
                /\ \A m \in 1..Len(lastOp.trace) :
                      lastOp.trace[m] = "ws-close" => j < m /\ m < k
          /\ lastOp.emitted = <<"on-drop-pipeline">>
          /\ pipeline_state = "NULL"
          /\ livePipelines = 0
          /\ ~sc_pipeline
          /\ ~appsink
          /\ ~em_conn.pipeline
    /\ lastOp.op = "new_sample" =>
          lastOp.pre.pipeline /\ lastOp.preState = "PLAYING"
    /\ ~em_conn.pipeline => pipeline_state = "NULL"

\* C19 witness: disconnect() has torn down a session that was streaming with
\* its websocket open, right after a new-sample callback.
C19_Witness ==
    /\ lastOp.op = "disconnect"
    /\ lastOp.preState = "PLAYING"
    /\ lastOp.pre.status = "CONNECTED"
    /\ lastOp.closed
    /\ lastOp.prevOp = "new_sample"

\* C20: at most one pipeline is live, and a live pipeline is the one the
\* connection holds; the stream client holds a pipeline only while the
\* connection does; em_connection_set_pipeline sets a pipeline already held to
\* GST_STATE_NULL before it releases it and installs the new one; and
\* on-need-pipeline is emitted only when the connection holds no pipeline.
C20_OneLivePipeline ==
    /\ livePipelines <= 1
    /\ livePipelines = (IF pipeline_state = "PLAYING" THEN 1 ELSE 0)
    /\ pipeline_state = "PLAYING" => em_conn.pipeline
    /\ sc_pipeline => em_conn.pipeline
    /\ (lastOp.op = "set_pipeline" /\ lastOp.pre.pipeline) =>
          /\ lastOp.trace = <<"pipeline-null", "pipeline-clear", "pipeline-set">>
          /\ em_conn.pipeline
          /\ livePipelines = 0
    /\ (\E i \in 1..Len(lastOp.emitted) : lastOp.emitted[i] = "on-need-pipeline") =>
          /\ ~lastOp.pre.pipeline
          /\ lastOp.preState = "NULL"

\* C20 witness: set-pipeline has replaced a pipeline that was playing.
C20_Witness ==
    /\ lastOp.op = "set_pipeline"
    /\ lastOp.pre.pipeline
    /\ lastOp.preState = "PLAYING"
    /\ em_conn.pipeline

\* C21 (as stated): when the answer to the received offer has been created,
\* the status becomes CONNECTED if the data channel is already held and
\* CONNECTED_NO_DATA if it is not.
C21_AnswerCreatedConnects ==
    lastOp.op = "answer_created" =>
        em_conn.status = (IF em_conn.datachannel THEN "CONNECTED"
                                                 ELSE "CONNECTED_NO_DATA")

\* C21 (amended): em_conn_webrtc_on_answer_created sets the local description
\* and sends the answer but leaves the status as it was; the status
\* CONNECTED_NO_DATA is never entered; and with USE_WEBRTC the status becomes
\* CONNECTED only in em_conn_webrtc_on_data_channel_cb, from NEGOTIATING.
C21_AnswerKeepsStatus ==
    /\ lastOp.op = "answer_created" =>
          /\ em_conn.status = lastOp.pre.status
          /\ lastOp.log = <<>>
          /\ lastOp.trace = <<"set-local-description", "send-answer">>
    /\ em_conn.status # "CONNECTED_NO_DATA"
    /\ (/\ useWebrtc
        /\ \E i \in 1..Len(lastOp.log) : lastOp.log[i] = "CONNECTED") =>
          /\ lastOp.op = "on_data_channel"
          /\ lastOp.pre.status = "NEGOTIATING"

\* C21 witness: the answer was created and sent while the session was
\* negotiating without a data channel.
C21_Witness ==
    /\ lastOp.op = "answer_created"
    /\ lastOp.pre.status = "NEGOTIATING"
    /\ ~lastOp.pre.datachannel
    /\ lastOp.sent = "answer"

TargetRounded(ave_ns) == (ave_ns * 3 + NsPerMs) \div (2 * NsPerMs)

\* C23 (as stated): at each evaluation max_jitter_latency becomes
\* max(previous - 10, round(mean_latency_ms * 1.5)).
C23_RoundedTarget ==
    lastEval.n > 0 =>
        lastEval.depth = Max(lastEval.prev - JitterDecayStepMs,
                             TargetRounded(lastEval.mean))

\* C23 (amended): at each evaluation max_jitter_latency becomes
\* max(previous - 10, target), where the target is mean_latency_ms * 1.5
\* with its fraction dropped; the depth equals the target when the target is
\* not below the previous depth and is never more than 10 ms below the
\* previous depth; a 50 ms mean has the target 75 ms.
C23_JitterDepth ==
    lastEval.n > 0 =>
        /\ lastEval.mean >= 0 =>
              /\ lastEval.target * 2 * NsPerMs <= 3 * lastEval.mean
              /\ 3 * lastEval.mean < (lastEval.target + 1) * 2 * NsPerMs
        /\ lastEval.mean < 0 =>
              /\ lastEval.target * 2 * NsPerMs >= 3 * lastEval.mean
              /\ 3 * lastEval.mean > (lastEval.target - 1) * 2 * NsPerMs
        /\ lastEval.depth >= lastEval.target
        /\ lastEval.depth >= lastEval.prev - JitterDecayStepMs
        /\ \/ lastEval.depth = lastEval.target
           \/ lastEval.depth = lastEval.prev - JitterDecayStepMs
        /\ lastEval.target >= lastEval.prev => lastEval.depth = lastEval.target
        /\ lastEval.mean = 50 * NsPerMs => lastEval.target = 75
        /\ max_jitter_latency = lastEval.depth

\* C23 witness: an evaluation with a 50 ms mean after the depth had risen to
\* 201 ms lowers the depth by one step, to 191 ms and not to 75 ms.
C23_Witness ==
    /\ lastEval.n = 2
    /\ lastEval.prev = 201
    /\ lastEval.mean = 50 * NsPerMs
    /\ lastEval.depth = 191
    /\ max_jitter_latency = 191

\* C24: an evaluation averages exactly the samples appended to the window
\* since the previous evaluation (the arithmetic mean, in whole nanoseconds)
\* and leaves the window empty; it happens only when more than
\* latency_calculation_window (3 s) has passed since the previous one; it
\* sets the jitter buffer's latency exactly once, and a pull that does not
\* evaluate sets nothing.
C24_EvaluationConsumesWindow ==
    /\ Len(latency_collection) = lastEval.pending
    /\ lastEval.n > 0 =>
          /\ lastEval.len = lastEval.fresh
          /\ lastEval.len >= 1
          /\ lastEval.sum >= 0 =>
                /\ lastEval.mean * lastEval.len <= lastEval.sum
                /\ lastEval.sum < (lastEval.mean + 1) * lastEval.len
          /\ lastEval.sum < 0 =>
                /\ lastEval.mean * lastEval.len >= lastEval.sum
                /\ lastEval.sum > (lastEval.mean - 1) * lastEval.len
          /\ average_latency = lastEval.mean
          /\ lastEval.gap > latency_calculation_window
          /\ lastEval.pending = 0 => lastEval.directives = <<lastEval.depth>>
          /\ lastEval.pending > 0 => lastEval.directives = <<>>
    /\ lastEval.n = 0 => lastEval.directives = <<>>

\* C24 witness: a second evaluation has averaged two samples, both appended
\* after the first evaluation, and emptied the window.
C24_Witness ==
    /\ lastEval.n = 2
    /\ lastEval.len = 2
    /\ lastEval.fresh = 2
    /\ lastEval.directives = <<lastEval.depth>>
    /\ latency_collection = <<>>

C25_BitrateTiers ==
    /\ lastBitrate.evaluated =>
          /\ lastBitrate.gap > BitrateWindowSecs
          /\ lastBitrate.window_max = lastBitrate.seen_max
          /\ lastBitrate.window_max < 100 * NsPerMs =>
                lastBitrate.target_bitrate = 8000
          /\ (/\ lastBitrate.window_max >= 100 * NsPerMs
              /\ lastBitrate.window_max < 200 * NsPerMs) =>
                lastBitrate.target_bitrate = 4000
          /\ (/\ lastBitrate.window_max >= 200 * NsPerMs
              /\ lastBitrate.window_max < 300 * NsPerMs) =>
                lastBitrate.target_bitrate = 2000
          /\ lastBitrate.window_max >= 300 * NsPerMs =>
                lastBitrate.target_bitrate = 1000
          /\ max_latency_over_window = client_average_latency
          /\ last_time_change_bitrate = lastBitrate.at
    /\ (lastBitrate.handled /\ ~lastBitrate.evaluated) =>
          /\ lastBitrate.gap <= BitrateWindowSecs
          /\ max_latency_over_window = lastBitrate.seen_now

\* C25 witness: an evaluation over a window whose maximum was 200 ms chose
\* 2000.
C25_Witness ==
    /\ lastBitrate.evaluated
    /\ lastBitrate.window_max = 200 * NsPerMs
    /\ lastBitrate.target_bitrate = 2000

\* C27: when the Down message attached to a pulled sample fails to decode,
\* the sample is returned without poses (have_poses false) and the last-known
\* Down message is left as it was.
C27_DecodeErrorYieldsAbsence ==
    (lastPull.ret = "sample" /\ lastPull.meta = "bad") =>
        /\ ~lastPull.have_poses
        /\ last_down_msg = lastPull.last_before

\* C28: every UpMessage takes, when it is emitted, an id strictly greater than
\* every id taken before it, and no two UpMessages carry the same id, whether
\* the sends succeed or fail and also while a pose report and a frame
\* acknowledgement are being emitted at the same time.
C28_UpMessageIdsIncrease ==
    /\ lastUp.n > 0 => lastUp.id > lastUp.max_before
    /\ \A i, j \in DOMAIN up_sent : i # j => up_sent[i].id # up_sent[j].id
    /\ \A i \in DOMAIN up_sent : \A e \in Emitters :
          up_pc[e] = "send" => up_msg[e] # up_sent[i].id
    /\ (up_pc["pose"] = "send" /\ up_pc["frame"] = "send")
          => up_msg["pose"] # up_msg["frame"]

\* Two emitters held ids at the same time, the later id was handed to the
\* connection first, and one of the sends failed.
C28_Witness ==
    /\ Len(up_sent) = MaxUpMessages
    /\ \E i, j \in DOMAIN up_sent :
          /\ i < j
          /\ up_sent[i].id > up_sent[j].id
          /\ up_sent[i].kind # up_sent[j].kind
    /\ \E i \in DOMAIN up_sent : ~up_sent[i].ok

\* C29: the frame acknowledgement emitted after a newly pulled sample was
\* rendered carries the frame_sequence_id of that sample and the decode-end,
\* begin-frame and display times of that frame.
C29_AckCarriesFrameId ==
    lastAck.emitted =>
        /\ lastAck.frame.frame_sequence_id = lastAck.sample_id
        /\ lastAck.frame.decode_complete_time
              = convertTimespecTimeToTime(lastAck.decodeEndTime)
        /\ lastAck.frame.begin_frame_time
              = convertTimespecTimeToTime(lastAck.beginFrameTime)
        /\ lastAck.frame.display_time = lastAck.predictedDisplayTime

SharedRace ==
    LET a == NextEntry("pipeline")
        b == NextEntry("render") IN
    /\ a.kind = "access"
    /\ b.kind = "access"
    /\ a.var = b.var
    /\ a.write \/ b.write

\* C31 as stated: every read and write of the latest-sample slot, its
\* decode-end time, the latency window and the last-known Down message is made
\* while holding the lock that guards the field.
C31_AccessOnlyUnderLock ==
    lastAccess.var # "none" => lastAccess.locked

\* C31 as amended: the sample slot and the skipped-frame counter are accessed
\* only under their mutex; the decode-end time is written and read by the
\* pull under sample_mutex and read without it only by on_new_sample_cb, the
\* thread that writes it; the latency window and the last-known Down message
\* have no lock and are accessed only by the render thread; and no two
\* threads are ever about to access the same field with one of them writing.
C31_SharedStateDiscipline ==
    /\ ~SharedRace
    /\ lastAccess.var \in {"sample", "skipped_frames"} => lastAccess.locked
    /\ (lastAccess.var = "sample_decode_end_time" /\ ~lastAccess.locked) =>
          /\ lastAccess.thread = "pipeline"
          /\ ~lastAccess.write
          /\ ~(lastAccess.other.kind = "access"
               /\ lastAccess.other.var = "sample_decode_end_time"
               /\ lastAccess.other.write)
    /\ lastAccess.var \in {"latency_collection", "last_down_msg"} =>
          /\ lastAccess.thread = "render"
          /\ ~lastAccess.locked

\* on_new_sample_cb read the decode-end time without the lock while the
\* render thread held sample_mutex and was about to read the same field.
C31_Witness ==
    /\ lastAccess.thread = "pipeline"
    /\ lastAccess.var = "sample_decode_end_time"
    /\ ~lastAccess.locked
    /\ lastAccess.other.kind = "access"
    /\ lastAccess.other.var = "sample_decode_end_time"
    /\ sh_holder["sample_mutex"] = "render"

\* C32: a pipeline assigned with em_connection_set_pipeline is kept by the
\* connection, and when the websocket connection comes up it is started
\* (PLAYING), also when it was assigned before the websocket was connected.
C32_AssignedPipelineStarted ==
    /\ (lastOp.op = "connect" /\ lastOp.pre.pipeline) => em_conn.pipeline
    /\ (/\ lastOp.op \in {"ws_connected", "abort"}
        /\ lastOp.trace = <<"ok">>
        /\ ~lastOp.pre.ws
        /\ lastOp.pre.pipeline) =>
          /\ ~aborted
          /\ em_conn.pipeline
          /\ pipeline_state = "PLAYING"

\* C34: whenever the status is CONNECTED the connection holds the websocket
\* and the pipeline and, with USE_WEBRTC, the data channel, so that
\* em_connection_send_bytes sends on a channel that is held; this also holds
\* when a data-channel announcement arrives after a disconnect.
C34_ConnectedHoldsResources ==
    /\ em_conn.status = "CONNECTED" =>
          /\ em_conn.ws
          /\ em_conn.pipeline
          /\ useWebrtc => em_conn.datachannel
    /\ (lastOp.op = "send" /\ lastOp.sent # "none") =>
          /\ lastOp.pre.ws
          /\ lastOp.pre.pipeline
          /\ useWebrtc => lastOp.pre.datachannel

\* C33: a call of em_stream_client_stop made after em_stream_client_spawn_thread
\* returns, and afterwards the mainloop thread has exited, the pipeline is
\* stopped and released, the connection is disconnected and
\* pipeline_is_running is false.
C33_StopStopsEverything ==
    (lastStop.n > 0 /\ lastStop.spawned) =>
        /\ lastStop.returned
        /\ st_caller = "free"
        /\ st_thread = "exited"
        /\ ~st_pipeline
        /\ st_state = "NULL"
        /\ st_conn = "idle"
        /\ ~pipeline_is_running

\* C35: when connect() was called again while an earlier websocket connect
\* was in flight, the completion callback of the earlier, cancelled attempt
\* leaves the newer attempt alone: the status stays CONNECTING, no
\* websocket-failed signal is emitted, nothing aborts, and the completion of
\* the newer attempt finds no websocket stored.
C35_CancelledAttemptIsolated ==
    /\ (/\ lastOp.op \in {"ws_connected", "abort"}
        /\ lastOp.trace = <<"cancelled">>
        /\ lastOp.preAttempt
        /\ lastOp.pre.status = "CONNECTING") =>
          /\ ~aborted
          /\ em_conn.status = "CONNECTING"
          /\ lastOp.emitted = <<>>
    /\ (/\ lastOp.op \in {"ws_connected", "abort"}
        /\ lastOp.trace # <<>>
        /\ lastOp.trace[1] \in {"ok", "error"}) => ~lastOp.pre.ws

C37_JointIndexInRange ==
    (lastJoint.n > 0 /\ lastJoint.decoded) =>
        /\ lastJoint.index \in 0..(HandJointCount - 1) <=> lastJoint.stored = "array"
        /\ lastJoint.index \notin 0..(HandJointCount - 1) => lastJoint.stored = "none"
        /\ ~hj_stray
        /\ hj_pc # "crashed"

\* C38: max_jitter_latency is never negative: from its initial value 0,
\* after any sequence of evaluations with any latency samples, zero and
\* negative ones included, the value issued to the jitter buffer is >= 0.
C38_JitterDepthNotNegative ==
    /\ max_jitter_latency >= 0
    /\ \A i \in DOMAIN lastEval.directives : lastEval.directives[i] >= 0

\* No sample was returned by two pulls, released twice, or both returned and
\* released; a sample that is in no slot and in no thread's hands was
\* returned or released
HandedOffOnce ==
    /\ \A i \in SampleIds : ho_returned[i] + ho_released[i] <= 1
    /\ \A i \in 1..ho_made :
          (/\ ho_slot # i
           /\ ho_local.pipeline.sample # i
           /\ ho_local.pipeline.prev # i
           /\ ~(ho_pc.render \in {4, 5, 6} /\ ho_local.render.sample = i))
          => ho_returned[i] + ho_released[i] = 1

\* C39 (as stated): across any interleaving of on_new_sample_cb and
\* em_stream_client_try_pull_sample every decoded sample is returned by
\* exactly one pull or released exactly once when a newer one supersedes
\* it; a pull with no new sample since the previous pull returns NULL and
\* increments the skipped-frame counter, which a successful pull resets to 0.
C39_HandoffAndSkipCount ==
    /\ HandedOffOnce
    /\ (lastHandoff.n > 0 /\ lastHandoff.fresh = 0) =>
          /\ lastHandoff.ret = NoSampleId
          /\ lastHandoff.skipped_after = lastHandoff.skipped_before + 1
    /\ (lastHandoff.n > 0 /\ lastHandoff.ret # NoSampleId) => lastHandoff.skipped_after = 0

\* C39 (amended): the hand-off is exactly-once as stated; once the appsink
\* exists, a pull with no new sample since the previous pull returns NULL
\* and increments the skipped-frame counter, a pull with a new sample
\* returns the latest one and resets the counter to 0; a pull before the
\* appsink exists returns NULL and leaves the counter as it is.
C39_HandoffExactlyOnce ==
    /\ HandedOffOnce
    /\ (lastHandoff.n > 0 /\ lastHandoff.appsink /\ lastHandoff.fresh = 0) =>
          /\ lastHandoff.ret = NoSampleId
          /\ lastHandoff.skipped_after = lastHandoff.skipped_before + 1
    /\ (lastHandoff.n > 0 /\ lastHandoff.appsink /\ lastHandoff.fresh > 0) =>
          /\ lastHandoff.ret # NoSampleId
          /\ lastHandoff.skipped_after = 0
    /\ (lastHandoff.n > 0 /\ ~lastHandoff.appsink) =>
          /\ lastHandoff.ret = NoSampleId
          /\ lastHandoff.skipped_after = lastHandoff.skipped_before
    /\ (lastHandoff.n > 0 /\ lastHandoff.ret # NoSampleId) => lastHandoff.skipped_after = 0

\* C39 witness: one sample was superseded and released, the one after it was
\* returned by a pull, and the next pull found nothing and counted a skip.
C39_Witness ==
    /\ ho_released[1] = 1
    /\ ho_returned[2] = 1
    /\ lastHandoff.appsink
    /\ lastHandoff.ret = NoSampleId
    /\ lastHandoff.skipped_before = 0
    /\ lastHandoff.skipped_after = 1

\* C40: a latency sample is appended to the window only for a frame whose
\* own Down message was read: a frame that falls back to the last-known
\* Down message appends no sample computed from that message's push time.
C40_LatencyOnlyFromOwnMessage ==
    (lastPull.ret = "sample" /\ lastPull.latency_of # 0) => lastPull.own

====
